---- MODULE Spec2Model ----
(***************************************************************************)
(* A model of the Kallax / Jarvfjallet Discord bots:                       *)
(*   - the Jarvfjallet games / user_assignments tables and the /hit        *)
(*     command (utils/database.py, cogs/game_assignment.py),               *)
(*   - the BoardGameGeek client of Kallax (utils/bgg_api.py): the retry    *)
(*     loop of _make_request, the item parsers and the suggested-players   *)
(*     poll aggregation,                                                   *)
(*   - the Jarvfjallet import, review completion and statistics,           *)
(*   - the Kallax user_profiles and game_cache tables and the lazy         *)
(*     initialization of the Database object (utils/database.py),          *)
(*   - the relevance scorer of /gg-search (cogs/game_search.py),           *)
(*   - /gg-profile-set and the collection pager (cogs/user_profiles.py),   *)
(*   - the value conversions and the flattening of repeated keys of the    *)
(*     BoardGameGeek client (utils/bgg_api.py),                            *)
(*   - the start of the Jarvfjallet bot with its legacy import (bot.py).   *)
(* Each part has its own specification; the variables of the other parts   *)
(* stay at their idle values.                                              *)
(***************************************************************************)
EXTENDS Integers, Sequences, FiniteSets, TLC

VARIABLES
    games,             \* games table: id -> [reviewer, assign_date, review_url, review_date]
    user_assignments,  \* user_assignments table, in insertion (rowid) order
    now,               \* the clock read by datetime.now()
    hit,               \* per user: the /hit command task of that user
    last,              \* the last database call made directly: arguments, result
    req,               \* the running _make_request call of the BGG client
    call,              \* the BGG client method that awaits req, and its result
    parse,             \* a BGG client method applied to one fetched response
    poll,              \* the vote loop of _parse_suggested_players
    user_profiles,     \* user_profiles table: discord_id -> <<>> or <<row>>
    connection,        \* Database.connection of Kallax: "none" or "open"
    lastUpdate,        \* the last update_user_profile call: arguments, result
    game_cache,        \* game_cache table: bgg_id -> <<>> or <<row>>
    lastCache,         \* the last cache_game / get_cached_game call: arguments, result
    db,                \* the Kallax Database object: _initialized, its lock, what it opened
    task,              \* per task: its get_connection call
    search,            \* one /gg-search result list: candidates, scores, presentation
    set_profile,       \* per platform: the /gg-profile-set command task for that platform
    pager,             \* the collection pager of /gg-collection: pages, page index, loop
    conv               \* one value conversion of the BGG client: function, input, result

jarvVars == <<games, user_assignments, now, hit, last>>
bggVars  == <<req, call, parse>>
pollVars == <<poll>>
profVars == <<user_profiles, connection, lastUpdate>>
kdbVars  == <<game_cache, lastCache, db, task>>
searchVars == <<search>>
cmdVars  == <<set_profile, pager, conv>>
vars     == <<jarvVars, bggVars, pollVars, profVars, kdbVars, searchVars, cmdVars>>

(***************************************************************************)
(* Bounds of the model.                                                    *)
(***************************************************************************)
NumGames == 2   \* rows of the games table
MaxTime  == 3   \* database writes in one run (each write reads a later clock)

(***************************************************************************)
(* Jarvfjallet: the games and user_assignments tables.                     *)
(***************************************************************************)
\* SQL NULL of a TEXT column.
Null == "<NULL>"

GameIds == 1..NumGames
\* A game id that is no row of the games table.
MissingGameId == NumGames + 1

\* str(interaction.user.id) of the Discord users of the model.
UserIds == {"111", "222"}
\* interaction.user.display_name: free text chosen by the user.
DisplayNames == {"alice", "222"}

\* The reviewer column after import_from_json: NULL for '' or a missing key,
\* otherwise whatever the legacy file held.
ImportedReviewers == {Null, "alice", "111"}

NoDate == <<>>
\* The empty string '' in a date column, as the legacy file spells "no date";
\* the clock never yields it.
EmptyText == 0

\* A row of the games table that was never assigned.
FreshGame == [reviewer |-> Null, assign_date |-> NoDate,
              review_url |-> Null, review_date |-> NoDate]

Unassigned(gs) == {g \in DOMAIN gs : gs[g].reviewer = Null \/ gs[g].reviewer = ""}

\* A query without its WHERE clause.
AnyGame(gs) == DOMAIN gs

\* A query on the review instead of the reviewer.
UnreviewedGames(gs) ==
    {g \in DOMAIN gs : gs[g].review_date = NoDate \/ gs[g].review_date = <<EmptyText>>}

\* get_random_unassigned_game: the rows the SELECT ... ORDER BY RANDOM() LIMIT 1
\* may return; the empty set stands for None.
get_random_unassigned_game(gs) == Unassigned(gs)

\* The UPDATE games SET reviewer = ?, assign_date = ? WHERE id = ? statement.
UpdateGameReviewer(gs, game_id, user_id, t) ==
    [g \in DOMAIN gs |->
        IF g = game_id THEN [gs[g] EXCEPT !.reviewer = user_id, !.assign_date = <<t>>]
        ELSE gs[g]]

\* The INSERT INTO user_assignments statement (foreign keys are not enforced:
\* the connection never sets PRAGMA foreign_keys).
InsertAssignment(ua, game_id, user_id, username) ==
    Append(ua, [user_id |-> user_id, username |-> username,
                game_id |-> game_id, status |-> "assigned",
                completed_at |-> NoDate, review_url |-> Null])

\* get_user_games_legacy(user_id, username): ids of the rows
\* WHERE reviewer = user_id OR reviewer = username; an empty argument adds no
\* condition.
get_user_games_legacy(gs, user_id, username) ==
    {g \in DOMAIN gs : \/ user_id # "" /\ gs[g].reviewer = user_id
                       \/ username # "" /\ gs[g].reviewer = username}

IdleHit == [pc |-> "idle", game |-> <<>>, name |-> "", outcome |-> "none",
            assign_calls |-> 0]
NoCall  == [op |-> "none"]

JarvIdle ==
    /\ games = [g \in GameIds |-> FreshGame]
    /\ user_assignments = <<>>
    /\ now = 1
    /\ hit = [u \in UserIds |-> IdleHit]
    /\ last = NoCall

JarvInit ==
    /\ games \in [GameIds -> [reviewer : ImportedReviewers, assign_date : {NoDate},
                               review_url : {Null}, review_date : {NoDate}]]
    /\ user_assignments = <<>>
    /\ now = 1
    /\ hit = [u \in UserIds |-> IdleHit]
    /\ last = NoCall

\* An assignment on a connection in autocommit mode: the UPDATE stays when the
\* INSERT fails.
assign_without_rollback(gs, ua, game_id, user_id, username, t, ok) ==
    [games |-> UpdateGameReviewer(gs, game_id, user_id, t),
     user_assignments |-> IF ok THEN InsertAssignment(ua, game_id, user_id, username) ELSE ua,
     ret |-> ok]

\* assign_game_to_user(game_id, user_id, username) as one transaction on the
\* tables: both statements and the commit, or (ok = FALSE) an exception before
\* the commit, after which the closing connection rolls back and the method
\* returns False.
assign_game_to_user(gs, ua, game_id, user_id, username, t, ok) ==
    IF ok
    THEN [games |-> UpdateGameReviewer(gs, game_id, user_id, t),
          user_assignments |-> InsertAssignment(ua, game_id, user_id, username),
          ret |-> TRUE]
    ELSE [games |-> gs, user_assignments |-> ua, ret |-> FALSE]

\* A direct call of Database.assign_game_to_user, as the tests make it.
AssignCall(game_id, user_id, username, ok) ==
    /\ now <= MaxTime
    /\ LET r == assign_game_to_user(games, user_assignments, game_id, user_id,
                                    username, now, ok)
       IN  /\ games' = r.games
           /\ user_assignments' = r.user_assignments
           /\ last' = [op |-> "assign", game_id |-> game_id, user_id |-> user_id,
                       username |-> username, ret |-> r.ret, at |-> now]
    /\ now' = now + 1
    /\ UNCHANGED <<hit, bggVars, pollVars, searchVars, cmdVars, profVars, kdbVars>>

(***************************************************************************)
(* Jarvfjallet: import, review completion and statistics.                  *)
(***************************************************************************)
\* The games of a legacy JSON file: never assigned, assigned, and reviewed.
\* The file spells "none" as the empty string.
LegacyGames ==
    {[reviewer |-> "", reviewurl |-> "", reviewdate |-> <<EmptyText>>, assigndate |-> <<EmptyText>>],
     [reviewer |-> "alice", reviewurl |-> "", reviewdate |-> <<EmptyText>>, assigndate |-> <<1>>],
     [reviewer |-> "alice", reviewurl |-> "http://old", reviewdate |-> <<1>>, assigndate |-> <<1>>]}

\* data['games'] of a legacy file: for each id of the file, its game.  The
\* files of the model hold the games 1..k.
JsonFiles == UNION {[1..k -> LegacyGames] : k \in 0..NumGames}

\* "x or None" of import_from_json (lines 125-127): '' becomes NULL.
OrNone(text) == IF text = "" THEN Null ELSE text

\* The row INSERT OR REPLACE writes for one game of the file (lines 116-150):
\* reviewer and review_url go through "or None", the two dates are stored as
\* the file has them.
ImportedRow(game) ==
    [reviewer    |-> OrNone(game.reviewer),
     assign_date |-> game.assigndate,
     review_url  |-> OrNone(game.reviewurl),
     review_date |-> game.reviewdate]

\* import_from_json (lines 102-161) on the games table.
import_from_json(gs, file) ==
    [g \in DOMAIN gs \cup DOMAIN file |->
        IF g \in DOMAIN file THEN ImportedRow(file[g]) ELSE gs[g]]

\* An UPDATE that stores the link and leaves the date.
UpdateGameReviewUrlOnly(gs, game_id, review_url, t) ==
    [g \in DOMAIN gs |->
        IF g = game_id THEN [gs[g] EXCEPT !.review_url = review_url] ELSE gs[g]]

\* UPDATE games SET review_url = ?, review_date = ? WHERE id = ? (lines 268-272).
UpdateGameReview(gs, game_id, review_url, t) ==
    [g \in DOMAIN gs |->
        IF g = game_id THEN [gs[g] EXCEPT !.review_url = review_url, !.review_date = <<t>>]
        ELSE gs[g]]

\* UPDATE user_assignments SET completed_at = ?, review_url = ?,
\* status = 'completed' WHERE game_id = ? (lines 275-279).
CompleteAssignments(ua, game_id, review_url, t) ==
    [i \in DOMAIN ua |->
        IF ua[i].game_id = game_id
        THEN [ua[i] EXCEPT !.completed_at = <<t>>, !.review_url = review_url,
                           !.status = "completed"]
        ELSE ua[i]]

\* update_review_completion(game_id, review_url) as one transaction
\* (lines 258-286); ok = FALSE is an exception before the commit.
update_review_completion(gs, ua, game_id, review_url, t, ok) ==
    IF ok
    THEN [games |-> UpdateGameReview(gs, game_id, review_url, t),
          user_assignments |-> CompleteAssignments(ua, game_id, review_url, t),
          ret |-> TRUE]
    ELSE [games |-> gs, user_assignments |-> ua, ret |-> FALSE]

\* SELECT COUNT(*) FROM games.
CountGames(gs) == Cardinality(DOMAIN gs)

\* A count without its WHERE clause.
CountAnyReviewer(gs) == Cardinality(DOMAIN gs)

\* SELECT COUNT(*) FROM games WHERE reviewer IS NOT NULL AND reviewer != ''.
CountAssigned(gs) ==
    Cardinality({g \in DOMAIN gs : gs[g].reviewer # Null /\ gs[g].reviewer # ""})

\* SELECT COUNT(*) FROM games WHERE review_date IS NOT NULL AND review_date != ''.
CountCompleted(gs) ==
    Cardinality({g \in DOMAIN gs :
                    gs[g].review_date # NoDate /\ gs[g].review_date # <<EmptyText>>})

\* get_game_stats (lines 288-314).
get_game_stats(gs) ==
    LET total_games    == CountGames(gs)
        assigned_games == CountAssigned(gs)
    IN  [total_games       |-> total_games,
         assigned_games    |-> assigned_games,
         unassigned_games  |-> total_games - assigned_games,
         completed_reviews |-> CountCompleted(gs)]

\* The database file before any import: both tables exist and are empty.
JarvEmpty ==
    /\ games = <<>>
    /\ user_assignments = <<>>
    /\ now = 1
    /\ hit = [u \in UserIds |-> IdleHit]
    /\ last = NoCall

\* A direct call of Database.import_from_json; the clock moves on while the
\* file is read.
ImportCall(file) ==
    /\ now <= MaxTime
    /\ games' = import_from_json(games, file)
    /\ last' = [op |-> "import", ids |-> DOMAIN file]
    /\ now' = now + 1
    /\ UNCHANGED <<user_assignments, hit, bggVars, pollVars, searchVars, cmdVars, profVars, kdbVars>>

\* A check that never finds a game.
has_no_games(gs) == FALSE

\* has_games (lines 92-100): SELECT COUNT(*) FROM games, count[0] > 0.
has_games(gs) == CountGames(gs) > 0

\* The legacy file ./data/itch_pak.json as a start of the bot finds it: <<>>
\* when it does not exist.
LegacyFiles == {<<>>} \cup {<<file>> : file \in JsonFiles}

\* A start of the bot: setup_hook (bot.py lines 59-72) makes a new Database
\* and calls import_legacy_data (lines 76-89), which imports the legacy file
\* when has_games() is False and the file exists.  The commands of the
\* process that ran before are gone.
SetupHook(json_file) ==
    /\ LET imports == ~has_games(games) /\ json_file # <<>>
       IN  /\ games' = IF imports THEN import_from_json(games, json_file[1]) ELSE games
           /\ last' = [op |-> "setup", imported |-> imports]
    /\ hit' = [u \in UserIds |-> IdleHit]
    /\ UNCHANGED <<user_assignments, now, bggVars, pollVars, searchVars, cmdVars, profVars, kdbVars>>

\* A direct call of Database.update_review_completion.
ReviewCall(game_id, review_url, ok) ==
    /\ now <= MaxTime
    /\ LET r == update_review_completion(games, user_assignments, game_id,
                                         review_url, now, ok)
       IN  /\ games' = r.games
           /\ user_assignments' = r.user_assignments
           /\ last' = [op |-> "review", game_id |-> game_id, review_url |-> review_url,
                       ret |-> r.ret]
    /\ now' = now + 1
    /\ UNCHANGED <<hit, bggVars, pollVars, searchVars, cmdVars, profVars, kdbVars>>

\* A direct call of Database.get_game_stats.
StatsCall ==
    /\ last' = [op |-> "stats", ret |-> get_game_stats(games)]
    /\ UNCHANGED <<games, user_assignments, now, hit, bggVars, pollVars, searchVars, cmdVars,
                   profVars, kdbVars>>

\* A direct call of Database.get_random_unassigned_game: <<>> for None.
RandomCall ==
    /\ LET avail == get_random_unassigned_game(games)
       IN  \/ avail = {} /\ last' = [op |-> "random", ret |-> <<>>]
           \/ \E g \in avail : last' = [op |-> "random", ret |-> <<g>>]
    /\ UNCHANGED <<games, user_assignments, now, hit, bggVars, pollVars, searchVars, cmdVars,
                   profVars, kdbVars>>

(***************************************************************************)
(* /hit as concurrent tasks: the handler gives up control at each await,   *)
(* so the two database calls of one command are two steps.                 *)
(***************************************************************************)
\* hit, line 30: game = await get_random_unassigned_game(); "if not game".
HitGet(u, name) ==
    /\ hit[u].pc # "picked"
    /\ LET avail == get_random_unassigned_game(games)
       IN  \/ /\ avail = {}
              /\ hit' = [hit EXCEPT ![u] = [pc |-> "done", game |-> <<>>, name |-> name,
                                            outcome |-> "no_games", assign_calls |-> 0]]
           \/ \E g \in avail :
                 hit' = [hit EXCEPT ![u] = [pc |-> "picked", game |-> <<g>>, name |-> name,
                                            outcome |-> "none", assign_calls |-> 0]]
    /\ UNCHANGED <<games, user_assignments, now, last, bggVars, pollVars, searchVars, cmdVars, profVars, kdbVars>>

\* hit, lines 42-56 and on: success = await assign_game_to_user(game['id'], ...).
HitAssign(u, ok) ==
    /\ hit[u].pc = "picked"
    /\ now <= MaxTime
    /\ LET r == assign_game_to_user(games, user_assignments, hit[u].game[1], u,
                                    hit[u].name, now, ok)
       IN  /\ games' = r.games
           /\ user_assignments' = r.user_assignments
           /\ hit' = [hit EXCEPT ![u].pc = "done",
                                 ![u].outcome = IF r.ret THEN "assigned" ELSE "failed",
                                 ![u].assign_calls = 1]
    /\ now' = now + 1
    /\ UNCHANGED <<last, bggVars, pollVars, searchVars, cmdVars, profVars, kdbVars>>

(***************************************************************************)
(* /hit run to completion before the next command starts.                  *)
(***************************************************************************)
Hit(u, name, ok) ==
    /\ LET avail == get_random_unassigned_game(games)
       IN  \/ /\ avail = {}
              /\ hit' = [hit EXCEPT ![u] = [pc |-> "done", game |-> <<>>, name |-> name,
                                            outcome |-> "no_games", assign_calls |-> 0]]
              /\ UNCHANGED <<games, user_assignments, now>>
           \/ \E g \in avail :
                 LET r == assign_game_to_user(games, user_assignments, g, u, name, now, ok)
                 IN  /\ now <= MaxTime
                     /\ games' = r.games
                     /\ user_assignments' = r.user_assignments
                     /\ hit' = [hit EXCEPT ![u] =
                                  [pc |-> "done", game |-> <<g>>, name |-> name,
                                   outcome |-> IF r.ret THEN "assigned" ELSE "failed",
                                   assign_calls |-> 1]]
                     /\ now' = now + 1
    /\ UNCHANGED <<last, bggVars, pollVars, searchVars, cmdVars, profVars, kdbVars>>

(***************************************************************************)
(* Kallax: the BoardGameGeek client.                                       *)
(***************************************************************************)
MaxItems == 2   \* items in one response body

max_retries == 3
initial_retry_delay == 2

\* What one session.get() of _make_request can end in: a 200 response whose
\* body xmltodict parses ("200"), a 200 response whose body it cannot parse
\* ("200bad"), a 202, any other status ("other"), or an exception of the
\* request itself ("exc").
Responses == {"200", "200bad", "202", "other", "exc"}

\* The '@id' / '@objectid' attribute of an item: absent, or its text.
NoId == "<absent>"
IdTexts == {NoId, "abc", "0", "7"}

CollectionFlags == {"own", "wishlist", "fortrade", "want"}
\* The status flags an item of the model carries with value '1'.
StatusSets == {{}, {"own"}, {"wishlist"}, {"own", "wishlist"}}

Items == [id : IdTexts, status : StatusSets]

RECURSIVE SeqsUpTo(_, _)
SeqsUpTo(S, n) ==
    IF n = 0 THEN {<<>>}
    ELSE LET shorter == SeqsUpTo(S, n - 1)
         IN  shorter \cup {Append(q, x) : q \in {r \in shorter : Len(r) = n - 1}, x \in S}

\* The item lists a parsed response body can hold.
Bodies == SeqsUpTo(Items, MaxItems)
\* Those whose items carry no status flag.
PlainBodies == SeqsUpTo([id : IdTexts, status : {{}}], MaxItems)

\* int(text) of Python on the id texts of the model: <<n>>, or <<>> for ValueError.
PyInt(text) ==
    CASE text = "0" -> <<0>>
      [] text = "7" -> <<7>>
      [] OTHER      -> <<>>

\* int(item.get('@id', 0)): the default 0 when the attribute is absent.
ItemId(item) == IF item.id = NoId THEN <<0>> ELSE PyInt(item.id)

Entry(item) == [bgg_id |-> ItemId(item)[1], status |-> item.status]

Ok(value) == [kind |-> "ok", value |-> value]
Raised    == [kind |-> "raised", value |-> <<>>]
Pending   == [kind |-> "pending", value |-> <<>>]

\* search_games, lines 86-97: the loop has no try; int() of a non-numeric id
\* raises out of the method, an id of 0 is dropped.
RECURSIVE SearchLoop(_, _)
SearchLoop(items, results) ==
    IF items = <<>> THEN Ok(results)
    ELSE LET item == Head(items)
         IN  IF ItemId(item) = <<>> THEN Raised
             ELSE IF ItemId(item)[1] # 0
                  THEN SearchLoop(Tail(items), Append(results, Entry(item)))
                  ELSE SearchLoop(Tail(items), results)

\* get_game_details / get_user_collection, lines 124-136 and 270-294: each item
\* is parsed inside its own try; a failing item and an id of 0 are dropped.
RECURSIVE GuardedLoop(_, _)
GuardedLoop(items, results) ==
    IF items = <<>> THEN Ok(results)
    ELSE LET item == Head(items)
         IN  IF ItemId(item) # <<>> /\ ItemId(item)[1] # 0
             THEN GuardedLoop(Tail(items), Append(results, Entry(item)))
             ELSE GuardedLoop(Tail(items), results)

\* get_user_plays, lines 319-357: each play is parsed inside its own try; a
\* failing play is dropped, a play without '@id' is kept with play_id 0.
RECURSIVE PlaysLoop(_, _)
PlaysLoop(items, results) ==
    IF items = <<>> THEN Ok(results)
    ELSE LET item == Head(items)
         IN  IF ItemId(item) # <<>>
             THEN PlaysLoop(Tail(items), Append(results, Entry(item)))
             ELSE PlaysLoop(Tail(items), results)

\* The four client methods on what _make_request returned: <<>> for None,
\* <<body>> for a parsed body.  "if not data ...: return []".
search_games(data) ==
    IF data = <<>> THEN Ok(<<>>) ELSE SearchLoop(data[1], <<>>)

get_game_details(data) ==
    IF data = <<>> THEN Ok(<<>>) ELSE GuardedLoop(data[1], <<>>)

\* collection_types only becomes request parameters (lines 245-255); the items
\* of the response are not compared with it.
get_user_collection(data, collection_types) ==
    IF data = <<>> THEN Ok(<<>>) ELSE GuardedLoop(data[1], <<>>)

get_user_plays(data) ==
    IF data = <<>> THEN Ok(<<>>) ELSE PlaysLoop(data[1], <<>>)

BggOps == {"search_games", "get_game_details", "get_user_collection", "get_user_plays"}

\* The collection_types argument: <<>> for None (all four types are asked for).
CollectionFilters == {<<>>, <<{"own"}>>, <<{"wishlist"}>>}

ClientMethod(op, data, filter) ==
    CASE op = "search_games"        -> search_games(data)
      [] op = "get_game_details"    -> get_game_details(data)
      [] op = "get_user_collection" -> get_user_collection(data, filter)
      [] op = "get_user_plays"      -> get_user_plays(data)

IdleReq == [pc |-> "idle", attempt |-> 0, requests |-> 0,
            retry_delay |-> initial_retry_delay, slept |-> 0,
            responses |-> <<>>, data |-> <<>>]
IdleCall == [op |-> "none", filter |-> <<>>, result |-> Pending]

IdleParse == [op |-> "none", filter |-> <<>>, data |-> <<>>, result |-> Pending]

BggIdle ==
    /\ req = IdleReq
    /\ call = IdleCall
    /\ parse = IdleParse

\* A client method is called and enters _make_request (lines 29-38).
CallStart(op, filter) ==
    /\ req.pc # "running"
    /\ op = "get_user_collection" \/ filter = <<>>
    /\ req' = [IdleReq EXCEPT !.pc = "running"]
    /\ call' = [op |-> op, filter |-> filter, result |-> Pending]
    /\ UNCHANGED <<parse, jarvVars, pollVars, searchVars, cmdVars, profVars, kdbVars>>

\* Whether this iteration of the loop sleeps: a 202 always (line 44), a failed
\* attempt only when another attempt follows (lines 58-60).
Sleeps(attempt, resp) ==
    \/ resp = "202"
    \/ resp \in {"200bad", "other", "exc"} /\ attempt < max_retries - 1

\* Whether _make_request returns the parsed body on this response (lines 48-51).
Returns(resp) == resp = "200"

\* A loop that takes a 202 as "ask again" without counting the attempt.
RepeatOn202(attempt, resp) == IF resp = "202" THEN attempt ELSE attempt + 1

\* The attempt counter after this iteration: "continue" (line 46) goes on to
\* the next value of range(max_retries) like every other path.
NextAttempt(attempt, resp) == attempt + 1

\* One iteration of "for attempt in range(max_retries)" (lines 38-62); when the
\* method returns, the client method that awaited it runs on to its end.
Attempt(resp, body) ==
    /\ req.pc = "running"
    /\ req.attempt < max_retries
    /\ body = <<>> \/ resp = "200"
    /\ LET slp  == Sleeps(req.attempt, resp)
           ret  == Returns(resp)
           next == NextAttempt(req.attempt, resp)
           over == ret \/ next >= max_retries
           data == IF ret THEN <<body>> ELSE <<>>
       IN  /\ req' = [pc          |-> IF over THEN "done" ELSE "running",
                      attempt     |-> next,
                      requests    |-> req.requests + 1,
                      retry_delay |-> IF slp THEN req.retry_delay * 2 ELSE req.retry_delay,
                      slept       |-> IF slp THEN req.slept + req.retry_delay ELSE req.slept,
                      responses   |-> Append(req.responses, resp),
                      data        |-> data]
           /\ call' = [call EXCEPT !.result =
                          IF over THEN ClientMethod(call.op, data, call.filter) ELSE Pending]
    /\ UNCHANGED <<parse, jarvVars, pollVars, searchVars, cmdVars, profVars, kdbVars>>

\* A client method from the return of _make_request to its own return, on
\* every response body of the model (and on None).
ParseInit ==
    /\ req = IdleReq
    /\ call = IdleCall
    /\ parse \in [op : BggOps, filter : CollectionFilters,
                  data : {<<>>} \cup {<<b>> : b \in Bodies}, result : {Pending}]
    /\ parse.op = "get_user_collection" \/ parse.filter = <<>>

ParseResponse ==
    /\ parse.result = Pending
    /\ parse.op \in BggOps
    /\ parse' = [parse EXCEPT !.result = ClientMethod(parse.op, parse.data, parse.filter)]
    /\ UNCHANGED <<req, call, jarvVars, pollVars, searchVars, cmdVars, profVars, kdbVars>>

(***************************************************************************)
(* Kallax: _parse_suggested_players, the vote loop of one player count.    *)
(***************************************************************************)
MaxTallies  == 3   \* <result> entries under one player count
MaxNumVotes == 2   \* the largest vote count of a tally

VoteValues == {"Best", "Recommended", "Not Recommended"}
\* _safe_int(vote.get('@numvotes', 0)): <<n>>, or <<>> for None (an empty or
\* non-numeric attribute).
NumVotes == {<<>>} \cup {<<n>> : n \in 0..MaxNumVotes}
Tallies == [value : VoteValues, numvotes : NumVotes]

\* Lines 223-224: the state of the loop before the first vote.
VoteStart == [best_votes |-> 0, recommendation |-> "Not Recommended", raised |-> FALSE]

\* A comparison that lets an equal vote count win.
BestTies(numvotes, best_votes) == numvotes[1] >= best_votes

\* Line 233: value == 'Best' and numvotes > best_votes.  Comparing None with an
\* int raises TypeError.
BestWins(numvotes, best_votes) == numvotes[1] > best_votes

\* Lines 230-237: one pass of "for vote in votes".
VoteStep(st, vote) ==
    IF st.raised THEN st
    ELSE IF vote.value = "Best"
         THEN IF vote.numvotes = <<>> THEN [st EXCEPT !.raised = TRUE]
              ELSE IF BestWins(vote.numvotes, st.best_votes)
                   THEN [st EXCEPT !.recommendation = "Best",
                                   !.best_votes = vote.numvotes[1]]
                   ELSE st
         ELSE IF vote.value = "Recommended" /\ st.recommendation # "Best"
              THEN [st EXCEPT !.recommendation = "Recommended"]
              ELSE st

IdlePoll == [votes |-> <<>>, done |-> 0, st |-> VoteStart]

PollIdle == poll = IdlePoll

PollInit == poll \in [votes : SeqsUpTo(Tallies, MaxTallies), done : {0}, st : {VoteStart}]

\* The loop takes the next vote of the list.
NextVote ==
    /\ poll.done < Len(poll.votes)
    /\ ~poll.st.raised
    /\ poll' = [poll EXCEPT !.done = poll.done + 1,
                            !.st = VoteStep(poll.st, poll.votes[poll.done + 1])]
    /\ UNCHANGED <<jarvVars, bggVars, profVars, kdbVars, searchVars, cmdVars>>

(***************************************************************************)
(* Kallax: the user_profiles table.                                        *)
(***************************************************************************)
NumProfiles == 2   \* discord ids of the model

DiscordIds == 1..NumProfiles

\* The columns update_user_profile accepts (line 328), in its order.
ProfileFields == {"bgg_username", "steam_id", "xbox_gamertag",
                  "weekly_stats_enabled", "weekly_stats_channel_id"}
\* The keyword arguments a call may carry: the columns and one other key.
KwargKeys == ProfileFields \cup {"nickname"}
\* The keyword sets of the calls of the model: none, an unknown key, one
\* platform field as /gg-profile-set passes it, the pair of the unit test,
\* the weekly-stats pair, and all columns.
KwargSets ==
    {{}, {"nickname"}, {"bgg_username"}, {"steam_id"}, {"xbox_gamertag"},
     {"bgg_username", "weekly_stats_enabled"},
     {"weekly_stats_enabled", "weekly_stats_channel_id"}, ProfileFields}

\* The value a call of the model passes for each keyword.
KwargValue ==
    [bgg_username |-> "newbgg", steam_id |-> "newsteam", xbox_gamertag |-> "newxbox",
     weekly_stats_enabled |-> TRUE, weekly_stats_channel_id |-> <<42>>,
     nickname |-> "nick"]

\* kwargs.get(field) / kwargs.get('weekly_stats_enabled', False) of
\* create_user_profile (lines 311-315).
KwargOrDefault(kwargs, field) ==
    IF field \in kwargs THEN KwargValue[field]
    ELSE CASE field = "weekly_stats_enabled"    -> FALSE
           [] field = "weekly_stats_channel_id" -> <<>>
           [] OTHER                             -> Null

\* The row INSERT OR REPLACE writes (lines 305-316): every column from the
\* call, created_at and updated_at from the clock.
CreatedRow(kwargs, t) ==
    [bgg_username            |-> KwargOrDefault(kwargs, "bgg_username"),
     steam_id                |-> KwargOrDefault(kwargs, "steam_id"),
     xbox_gamertag           |-> KwargOrDefault(kwargs, "xbox_gamertag"),
     weekly_stats_enabled    |-> KwargOrDefault(kwargs, "weekly_stats_enabled"),
     weekly_stats_channel_id |-> KwargOrDefault(kwargs, "weekly_stats_channel_id"),
     created_at              |-> t,
     updated_at              |-> t]

\* Rows an earlier run of the bot left in the database file.
StoredRows ==
    {CreatedRow({}, 0),
     [CreatedRow({}, 0) EXCEPT !.bgg_username = "oldbgg", !.steam_id = "oldsteam",
                               !.weekly_stats_enabled = TRUE]}

\* The SET list built by lines 328-331.
Updates(kwargs) == kwargs \cap ProfileFields

\* UPDATE user_profiles SET <updates>, updated_at = CURRENT_TIMESTAMP (line 339)
\* applied to one row.
UpdatedRow(row, kwargs, t) ==
    [c \in DOMAIN row |->
        IF c \in Updates(kwargs) THEN KwargValue[c]
        ELSE IF c = "updated_at" THEN t
        ELSE row[c]]

\* update_user_profile (lines 322-347) on the table and the connection
\* attribute: the new table and the value returned.
update_user_profile(table, conn, discord_id, kwargs, t) ==
    IF Updates(kwargs) = {} THEN [table |-> table, ret |-> TRUE]
    ELSE IF conn = "none" THEN [table |-> table, ret |-> FALSE]
    ELSE IF table[discord_id] = <<>> THEN [table |-> table, ret |-> FALSE]
    ELSE [table |-> [table EXCEPT ![discord_id] = <<UpdatedRow(table[discord_id][1], kwargs, t)>>],
          ret |-> TRUE]

NoUpdate == [discord_id |-> 0, kwargs |-> {}, ret |-> FALSE, at |-> 0]

ProfIdle ==
    /\ user_profiles = [d \in DiscordIds |-> <<>>]
    /\ connection = "none"
    /\ lastUpdate = NoUpdate

ProfInit ==
    /\ user_profiles \in [DiscordIds -> {<<>>} \cup {<<r>> : r \in StoredRows}]
    /\ connection = "none"
    /\ lastUpdate = NoUpdate

\* get_user_profile (lines 284-299): reads through get_connection, which opens
\* the connection on first use.
GetUserProfile(discord_id) ==
    /\ connection = "none"
    /\ connection' = "open"
    /\ UNCHANGED <<user_profiles, lastUpdate, jarvVars, bggVars, pollVars, searchVars, cmdVars, kdbVars>>

\* create_user_profile (lines 301-320).
CreateUserProfile(discord_id, kwargs) ==
    /\ now <= MaxTime
    /\ connection' = "open"
    /\ user_profiles' = [user_profiles EXCEPT ![discord_id] = <<CreatedRow(kwargs, now)>>]
    /\ now' = now + 1
    /\ UNCHANGED <<lastUpdate, games, user_assignments, hit, last, bggVars, pollVars, searchVars, cmdVars, kdbVars>>

UpdateUserProfile(discord_id, kwargs) ==
    /\ now <= MaxTime
    /\ LET r == update_user_profile(user_profiles, connection, discord_id, kwargs, now)
       IN  /\ user_profiles' = r.table
           /\ lastUpdate' = [discord_id |-> discord_id, kwargs |-> kwargs,
                             ret |-> r.ret, at |-> now]
    /\ now' = now + 1
    /\ UNCHANGED <<connection, games, user_assignments, hit, last, bggVars, pollVars, searchVars, cmdVars, kdbVars>>

(***************************************************************************)
(* Kallax: /gg-profile-set (cogs/user_profiles.py).                        *)
(***************************************************************************)
\* valid_platforms (line 42): the column each platform is stored in.
valid_platforms ==
    [bgg |-> "bgg_username", steam |-> "steam_id", xbox |-> "xbox_gamertag"]

IdleSet == [pc |-> "idle", discord_id |-> 0, outcome |-> "none", at |-> 0]

SetIdle == set_profile = [p \in DOMAIN valid_platforms |-> IdleSet]

\* set_profile up to the return of update_user_profile (lines 37-120): the
\* checks of the platform and of the user name (valid), then
\* "success = await update_user_profile(interaction.user.id, **profile_data)"
\* with the one column of the platform; on True the command reports the
\* profile as set.
SetUpdate(p, discord_id, valid) ==
    /\ set_profile[p].pc \in {"idle", "done"}
    /\ now <= MaxTime
    /\ IF ~valid
       THEN /\ set_profile' = [set_profile EXCEPT ![p] =
                  [pc |-> "done", discord_id |-> discord_id, outcome |-> "rejected",
                   at |-> now]]
            /\ UNCHANGED <<user_profiles, now>>
       ELSE LET r == update_user_profile(user_profiles, connection, discord_id,
                                         {valid_platforms[p]}, now)
            IN  /\ user_profiles' = r.table
                /\ now' = IF r.ret THEN now + 1 ELSE now
                /\ set_profile' = [set_profile EXCEPT ![p] =
                      [pc |-> IF r.ret THEN "done" ELSE "create",
                       discord_id |-> discord_id,
                       outcome |-> IF r.ret THEN "set" ELSE "none",
                       at |-> now]]
    /\ UNCHANGED <<connection, lastUpdate, pager, conv, games, user_assignments, hit, last,
                   bggVars, pollVars, searchVars, kdbVars>>

\* set_profile after update_user_profile returned False (lines 121-129):
\* "success = await create_user_profile(interaction.user.id, **profile_data)",
\* an INSERT OR REPLACE of the whole row from the one column of this command
\* (database.py lines 301-320; get_connection opens the connection).  ok =
\* FALSE is an exception inside create_user_profile, which returns False.
SetCreate(p, ok) ==
    /\ set_profile[p].pc = "create"
    /\ now <= MaxTime
    /\ LET discord_id == set_profile[p].discord_id
       IN  IF ok
           THEN /\ user_profiles' = [user_profiles EXCEPT ![discord_id] =
                                        <<CreatedRow({valid_platforms[p]}, now)>>]
                /\ connection' = "open"
                /\ now' = now + 1
                /\ set_profile' = [set_profile EXCEPT ![p].pc = "done",
                                                      ![p].outcome = "created",
                                                      ![p].at = now]
           ELSE /\ set_profile' = [set_profile EXCEPT ![p].pc = "done",
                                                      ![p].outcome = "failed",
                                                      ![p].at = now]
                /\ UNCHANGED <<user_profiles, connection, now>>
    /\ UNCHANGED <<lastUpdate, pager, conv, games, user_assignments, hit, last,
                   bggVars, pollVars, searchVars, kdbVars>>

\* No other /gg-profile-set command is between its two database calls.
NoOtherSetRunning(p) ==
    \A q \in DOMAIN valid_platforms \ {p} : set_profile[q].pc # "create"

(***************************************************************************)
(* Kallax: the collection pager (_show_collection_pages_interaction).      *)
(* A name is a number that stands for its place in alphabetical order;     *)
(* time passes in seconds.                                                 *)
(***************************************************************************)
MaxCollection == 31   \* games in one collection

items_per_page == 15
wait_timeout == 60

\* The collections of the model, as get_user_collection returns them: names
\* ascending, names descending, and two names shared by all games.
CollectionOrders == {"ascending", "descending", "shared"}
CollectionOf(n, order) ==
    [i \in 1..n |->
        [bgg_id |-> i,
         name   |-> CASE order = "ascending"  -> i
                      [] order = "descending" -> n + 1 - i
                      [] order = "shared"     -> i % 2]]

\* collection.sort(key=lambda x: x['name']) (line 243): a stable sort.
InsertByName(sorted, game) ==
    LET before == {i \in DOMAIN sorted : sorted[i].name <= game.name}
        k      == Cardinality(before)
    IN  SubSeq(sorted, 1, k) \o <<game>> \o SubSeq(sorted, k + 1, Len(sorted))

RECURSIVE SortByName(_)
SortByName(collection) ==
    IF collection = <<>> THEN <<>>
    ELSE InsertByName(SortByName(SubSeq(collection, 1, Len(collection) - 1)),
                      collection[Len(collection)])

\* pages = [collection[i:i + items_per_page] for i in range(0, len(collection),
\* items_per_page)] (line 247).
Pages(collection) ==
    [k \in 1..((Len(collection) + items_per_page - 1) \div items_per_page) |->
        SubSeq(collection, (k - 1) * items_per_page + 1,
               IF k * items_per_page < Len(collection) THEN k * items_per_page
               ELSE Len(collection))]

\* A right arrow that always turns the page.
TurnAlways(current_page, pages, emoji) ==
    IF emoji = "left" /\ current_page > 0 THEN current_page - 1
    ELSE IF emoji = "right" THEN current_page + 1
    ELSE current_page

\* The page after a reaction (lines 322-332): left on the first page and
\* right on the last page leave it.
TurnPage(current_page, pages, emoji) ==
    IF emoji = "left" /\ current_page > 0 THEN current_page - 1
    ELSE IF emoji = "right" /\ current_page < Len(pages) - 1 THEN current_page + 1
    ELSE current_page

IdlePager == [pc |-> "idle", collection |-> <<>>, pages |-> <<>>, current_page |-> 0,
              waited |-> 0, reaction |-> "none"]
PagerIdle == pager = IdlePager

\* _show_collection_pages_interaction up to its first wait (lines 237-318): an
\* empty collection returns at once; the collection is sorted in place and
\* cut into pages, the first page is sent, and the reaction loop starts only
\* when there is more than one page.
ShowCollection(n, order) ==
    /\ pager.pc = "idle"
    /\ LET collection == SortByName(CollectionOf(n, order))
           pages      == Pages(collection)
       IN  pager' = IF n = 0 THEN [pager EXCEPT !.pc = "returned"]
                    ELSE [pager EXCEPT !.pc = IF Len(pages) > 1 THEN "waiting" ELSE "shown",
                                       !.collection = collection,
                                       !.pages = pages,
                                       !.current_page = 0]
    /\ UNCHANGED <<set_profile, conv, jarvVars, bggVars, pollVars, profVars, kdbVars,
                   searchVars>>

\* One second passes while wait_for waits (line 320).
Tick ==
    /\ pager.pc = "waiting"
    /\ pager.waited < wait_timeout
    /\ pager' = [pager EXCEPT !.waited = pager.waited + 1]
    /\ UNCHANGED <<set_profile, conv, jarvVars, bggVars, pollVars, profVars, kdbVars,
                   searchVars>>

\* wait_for returns a reaction that passes check (lines 320-342): an arrow of
\* the user on this message.  The page turns or stays, and the loop waits
\* again; ok = FALSE is an exception of message.edit or remove_reaction other
\* than NotFound, which leaves the method.
Reaction(emoji, ok) ==
    /\ pager.pc = "waiting"
    /\ pager.waited < wait_timeout
    /\ pager' = [pager EXCEPT !.current_page = TurnPage(pager.current_page, pager.pages, emoji),
                              !.waited = 0,
                              !.reaction = emoji,
                              !.pc = IF ok THEN "waiting" ELSE "failed"]
    /\ UNCHANGED <<set_profile, conv, jarvVars, bggVars, pollVars, profVars, kdbVars,
                   searchVars>>

\* wait_for raises asyncio.TimeoutError (lines 344-350): the reactions are
\* cleared and the loop ends.
Timeout ==
    /\ pager.pc = "waiting"
    /\ pager.waited = wait_timeout
    /\ pager' = [pager EXCEPT !.pc = "closed"]
    /\ UNCHANGED <<set_profile, conv, jarvVars, bggVars, pollVars, profVars, kdbVars,
                   searchVars>>

IdleConv == [fn |-> "none"]
ConvIdle == conv = IdleConv

CmdIdle == SetIdle /\ PagerIdle /\ ConvIdle

(***************************************************************************)
(* Kallax: the game_cache table.                                           *)
(***************************************************************************)
NumCached == 2   \* bgg ids of the model

CacheIds == 1..NumCached

\* The game_data mappings of the model: game_data.get('name') is None when the
\* key is absent; the rating is absent or a number.
GameData == [bgg_id : CacheIds, name : {Null, "Gloomhaven", "Gloomhaven (Updated)"},
             rating : {<<>>, <<9>>}]

\* The row INSERT OR REPLACE writes (lines 354-374): every column from the
\* call, cached_at from the clock.
CachedRow(game_data, t) ==
    [bgg_id |-> game_data.bgg_id, name |-> game_data.name,
     rating |-> game_data.rating, cached_at |-> t]

\* cache_game (lines 350-380) on the table and the connection attribute: the
\* statement runs on self.connection; without a connection, and for a NULL in
\* the NOT NULL column name, it raises, and the method returns False.
cache_game(table, conn, game_data, t) ==
    IF conn = "none" THEN [table |-> table, ret |-> FALSE]
    ELSE IF game_data.name = Null THEN [table |-> table, ret |-> FALSE]
    ELSE [table |-> [table EXCEPT ![game_data.bgg_id] = <<CachedRow(game_data, t)>>],
          ret |-> TRUE]

\* get_cached_game (lines 382-392): the row as <<row>>, None as <<>>; without a
\* connection the method raises.
get_cached_game(table, conn, bgg_id) ==
    IF conn = "none" THEN Raised ELSE Ok(table[bgg_id])

NoCacheCall == [op |-> "none"]

CacheIdle ==
    /\ game_cache = [i \in CacheIds |-> <<>>]
    /\ lastCache = NoCacheCall

CacheGame(game_data) ==
    /\ now <= MaxTime
    /\ LET r == cache_game(game_cache, connection, game_data, now)
       IN  /\ game_cache' = r.table
           /\ lastCache' = [op |-> "cache_game", game_data |-> game_data, ret |-> r.ret]
    /\ now' = now + 1
    /\ UNCHANGED <<db, task, user_profiles, connection, lastUpdate, games,
                   user_assignments, hit, last, bggVars, pollVars, searchVars, cmdVars>>

GetCachedGame(bgg_id) ==
    /\ lastCache' = [op |-> "get_cached_game", bgg_id |-> bgg_id,
                     ret |-> get_cached_game(game_cache, connection, bgg_id)]
    /\ UNCHANGED <<game_cache, db, task, jarvVars, bggVars, pollVars, searchVars, cmdVars, profVars>>

(***************************************************************************)
(* Kallax: lazy initialization of the Database object.  get_connection and *)
(* initialize give up control at each await on the database library.       *)
(***************************************************************************)
NumTasks == 3   \* tasks that call get_connection

Tasks == 1..NumTasks

\* No task holds _initialization_lock; self.connection is None.  db.opened
\* counts the connection objects opened, and the last one is self.connection;
\* task[t].waited tells whether the call of t had to wait for the lock.
NoTask == 0
NoConnection == 0

IdleDb == [initialized |-> FALSE, lock |-> NoTask, opened |-> 0, created |-> 0,
           file |-> FALSE, tables |-> FALSE]
IdleTask == [pc |-> "idle", db_exists |-> FALSE, conn |-> NoConnection, waited |-> FALSE]

DbIdle ==
    /\ db = IdleDb
    /\ task = [t \in Tasks |-> IdleTask]

\* The database file is absent, or an earlier run left it with its tables.
DbInit ==
    /\ db \in {[IdleDb EXCEPT !.file = f, !.tables = f] : f \in BOOLEAN}
    /\ task = [t \in Tasks |-> IdleTask]

\* An initialize() that does not look at _initialized once it has the lock.
NeverInitialized(d) == FALSE

\* initialize, line 27: "if self._initialized: return" under the lock.
AlreadyInitialized(d) == d.initialized

\* With the lock in hand: return when initialized (get_connection then returns
\* self.connection, line 171), else lines 30-35 up to "await aiosqlite.connect".
EnterInitialize(t) ==
    IF AlreadyInitialized(db)
    THEN /\ task' = [task EXCEPT ![t].pc = "done", ![t].conn = db.opened]
         /\ UNCHANGED db
    ELSE /\ task' = [task EXCEPT ![t].pc = "connect", ![t].db_exists = db.file]
         /\ db' = [db EXCEPT !.lock = t]

\* get_connection, lines 158-159 and 171: without an await when the database
\* is initialized; else into initialize, up to its first await.
GetConnection(t) ==
    /\ task[t].pc \in {"idle", "done"}
    /\ IF db.initialized
       THEN /\ task' = [task EXCEPT ![t].pc = "done", ![t].conn = db.opened,
                                    ![t].waited = FALSE]
            /\ UNCHANGED db
       ELSE IF db.lock # NoTask
            THEN /\ task' = [task EXCEPT ![t].pc = "wait", ![t].conn = NoConnection,
                                         ![t].waited = TRUE]
                 /\ UNCHANGED db
            ELSE EnterInitialize(t)
    /\ UNCHANGED <<connection, game_cache, lastCache, user_profiles, lastUpdate,
                   jarvVars, bggVars, pollVars, searchVars, cmdVars>>

\* A task waiting at "async with self._initialization_lock" gets the lock.
AcquireLock(t) ==
    /\ task[t].pc = "wait"
    /\ db.lock = NoTask
    /\ EnterInitialize(t)
    /\ UNCHANGED <<connection, game_cache, lastCache, user_profiles, lastUpdate,
                   jarvVars, bggVars, pollVars, searchVars, cmdVars>>

\* Lines 38-42: aiosqlite.connect returns a new connection object (and creates
\* the file); it becomes self.connection.
Connect(t) ==
    /\ task[t].pc = "connect"
    /\ db' = [db EXCEPT !.opened = db.opened + 1, !.file = TRUE]
    /\ connection' = "open"
    /\ task' = [task EXCEPT ![t].pc = "setup"]
    /\ UNCHANGED <<game_cache, lastCache, user_profiles, lastUpdate,
                   jarvVars, bggVars, pollVars, searchVars, cmdVars>>

\* Lines 45-58 and 171: the PRAGMAs, _create_tables for a new file (or
\* _validate_schema for an existing one), _initialized = True, the lock is
\* released, and get_connection returns self.connection.
FinishInitialize(t) ==
    /\ task[t].pc = "setup"
    /\ db' = [db EXCEPT !.initialized = TRUE, !.lock = NoTask,
                        !.tables = TRUE,
                        !.created = IF task[t].db_exists /\ db.tables
                                    THEN db.created ELSE db.created + 1]
    /\ task' = [task EXCEPT ![t].pc = "done", ![t].conn = db.opened]
    /\ UNCHANGED <<connection, game_cache, lastCache, user_profiles, lastUpdate,
                   jarvVars, bggVars, pollVars, searchVars, cmdVars>>

KdbIdle == CacheIdle /\ DbIdle

(***************************************************************************)
(* Kallax: the relevance scorer of /gg-search (cogs/game_search.py).  A text  *)
(* is the sequence of its characters; a score is an exact multiple of      *)
(* 1/Unit.                                                                 *)
(***************************************************************************)
MaxResults == 2   \* candidates in one result list

\* One whole point of score.
Unit == 12600

Whitespace == {" "}
Digits == {"0", "1", "2", "3", "4", "5", "6", "7", "8", "9"}

\* str.lower() on the characters of the model.
LowerChar(c) == IF c = "C" THEN "c" ELSE c
Lower(text) == [i \in DOMAIN text |-> LowerChar(text[i])]

\* str.strip(): leading and trailing whitespace removed.
RECURSIVE LStrip(_)
LStrip(text) ==
    IF text # <<>> /\ Head(text) \in Whitespace THEN LStrip(Tail(text)) ELSE text
RECURSIVE RStrip(_)
RStrip(text) ==
    IF text # <<>> /\ text[Len(text)] \in Whitespace
    THEN RStrip(SubSeq(text, 1, Len(text) - 1)) ELSE text
Strip(text) == RStrip(LStrip(text))

\* str.startswith and the "in" of two strings.
StartsWith(text, prefix) ==
    Len(prefix) <= Len(text) /\ SubSeq(text, 1, Len(prefix)) = prefix
Contains(text, part) ==
    \E i \in 1..(Len(text) - Len(part) + 1) : SubSeq(text, i, i + Len(part) - 1) = part

\* difflib.SequenceMatcher.find_longest_match on whole strings: the longest
\* common block, the earliest in a, then the earliest in b; k = 0 for none.
Blocks(a, b) ==
    {<<i, j, k>> \in (DOMAIN a) \X (DOMAIN b) \X (1..Len(a)) :
        /\ i + k - 1 <= Len(a)
        /\ j + k - 1 <= Len(b)
        /\ SubSeq(a, i, i + k - 1) = SubSeq(b, j, j + k - 1)}
LongestMatch(a, b) ==
    IF Blocks(a, b) = {} THEN <<1, 1, 0>>
    ELSE CHOOSE m \in Blocks(a, b) :
            \A n \in Blocks(a, b) :
                \/ m[3] > n[3]
                \/ m[3] = n[3] /\ m[1] < n[1]
                \/ m[3] = n[3] /\ m[1] = n[1] /\ m[2] <= n[2]

\* The characters in get_matching_blocks: the longest block, then the same to
\* its left and to its right.
RECURSIVE Matched(_, _)
Matched(a, b) ==
    LET m == LongestMatch(a, b)
    IN  IF m[3] = 0 THEN 0
        ELSE m[3] + Matched(SubSeq(a, 1, m[1] - 1), SubSeq(b, 1, m[2] - 1))
                  + Matched(SubSeq(a, m[1] + m[3], Len(a)), SubSeq(b, m[2] + m[3], Len(b)))

\* SequenceMatcher(None, a, b).ratio() * 0.7 = 2 * M / T * 0.7, in units.
SimilarityScore(a, b) ==
    IF Len(a) + Len(b) = 0 THEN (7 * Unit) \div 10
    ELSE (14 * Matched(a, b) * Unit) \div (10 * (Len(a) + Len(b)))

\* Lines 529-543 with both strings as the comparison takes them.
TierScore(name_lower, query_lower) ==
    IF name_lower = query_lower THEN Unit
    ELSE IF StartsWith(name_lower, query_lower) THEN (9 * Unit) \div 10
    ELSE IF Contains(name_lower, query_lower) THEN (8 * Unit) \div 10
    ELSE SimilarityScore(query_lower, name_lower)

\* Lines 525 and 529: query.lower().strip() and result.get('name', '').lower().
BaseScore(result, query) == TierScore(Lower(result.name), Strip(Lower(query)))

\* A comparison that trims the name as well.
TrimmedBaseScore(result, query) ==
    TierScore(Strip(Lower(result.name)), Strip(Lower(query)))

\* min(rating / 10 * 0.1, 0.1), line 550.
RatingScore(rating) ==
    IF (rating * Unit) \div 100 < Unit \div 10 THEN (rating * Unit) \div 100
    ELSE Unit \div 10

\* "if result.get('rating')": a rating that is present and not 0.
HasRating(result) == result.rating # <<>> /\ result.rating[1] # 0

\* A rating bonus for every bgg candidate, whatever the catalog.
RatingBonusAnyCatalog(result, catalog) ==
    IF result.platform = "bgg" /\ HasRating(result)
    THEN RatingScore(result.rating[1]) ELSE 0

\* Lines 546-550: the rating bonus sits inside the branch catalog == 'bgg'.
RatingBonus(result, catalog) ==
    IF catalog = "bgg" /\ result.platform = "bgg" /\ HasRating(result)
    THEN RatingScore(result.rating[1]) ELSE 0

\* Lines 546-558: the platform bonus.
PlatformBonus(result, catalog) ==
    IF catalog = "bgg" /\ result.platform = "bgg" THEN Unit \div 10
    ELSE IF catalog = "steam" /\ result.platform = "steam" THEN Unit \div 10
    ELSE IF catalog = "xbox" /\ result.platform = "xbox" THEN Unit \div 10
    ELSE IF catalog = "all" /\ result.platform = "bgg" THEN Unit \div 20
    ELSE 0

\* str.isdigit() and int() of a string of digits.
IsDigit(text) == text # <<>> /\ \A i \in DOMAIN text : text[i] \in Digits
DigitValue(c) ==
    CASE c = "0" -> 0 [] c = "1" -> 1 [] c = "2" -> 2 [] c = "3" -> 3 [] c = "4" -> 4
      [] c = "5" -> 5 [] c = "6" -> 6 [] c = "7" -> 7 [] c = "8" -> 8 [] c = "9" -> 9
RECURSIVE IntOfDigits(_)
IntOfDigits(text) ==
    IF text = <<>> THEN 0
    ELSE 10 * IntOfDigits(SubSeq(text, 1, Len(text) - 1)) + DigitValue(text[Len(text)])

\* year_published of a candidate: None, an int or a str.
NoYear == [type |-> "none", int |-> 0, str |-> <<>>]
IntYear(n) == [type |-> "int", int |-> n, str |-> <<>>]
StrYear(text) == [type |-> "str", int |-> 0, str |-> text]

\* "if result.get('year_published')": not None, not 0, not ''.
Truthy(year) ==
    \/ year.type = "int" /\ year.int # 0
    \/ year.type = "str" /\ year.str # <<>>

\* A year bonus without its cap.
UncappedYearScore(year) == ((year - 2000) * Unit) \div 200

\* min((year - 2000) / 200, 0.1), line 567.
YearScore(year) ==
    IF ((year - 2000) * Unit) \div 200 < Unit \div 10
    THEN ((year - 2000) * Unit) \div 200
    ELSE Unit \div 10

\* Lines 561-568.
YearBonus(result) ==
    IF ~Truthy(result.year_published) THEN 0
    ELSE LET given == result.year_published
             year  == IF given.type = "str" /\ IsDigit(given.str)
                      THEN IntYear(IntOfDigits(given.str)) ELSE given
         IN  IF year.type = "int" /\ year.int > 2000 THEN YearScore(year.int) ELSE 0

\* The score of one candidate, lines 527-570.
Score(result, query, catalog) ==
    BaseScore(result, query) + PlatformBonus(result, catalog)
        + RatingBonus(result, catalog) + YearBonus(result)

\* An insertion that puts a tuple before the tuples of its own score.
InsertBeforeTies(sorted, entry) ==
    LET before == SelectSeq(sorted, LAMBDA e : e.score > entry.score)
        after  == SelectSeq(sorted, LAMBDA e : e.score <= entry.score)
    IN  before \o <<entry>> \o after

\* list.sort(key=score, reverse=True), line 573: a stable sort, so a tuple
\* comes after the tuples of its own score that were before it in the list.
InsertStable(sorted, entry) ==
    LET before == SelectSeq(sorted, LAMBDA e : e.score >= entry.score)
        after  == SelectSeq(sorted, LAMBDA e : e.score < entry.score)
    IN  before \o <<entry>> \o after

RECURSIVE SortByScore(_)
SortByScore(entries) ==
    IF entries = <<>> THEN <<>>
    ELSE InsertStable(SortByScore(SubSeq(entries, 1, Len(entries) - 1)),
                      entries[Len(entries)])

\* _score_search_results (lines 522-574): the tuples (result, score); item is
\* the position in results of the dict the tuple holds.
ScoreSearchResults(results, query, catalog) ==
    SortByScore([i \in DOMAIN results |->
                    [item |-> i, score |-> Score(results[i], query, catalog)]])

\* A marker on every entry above the threshold.
MarksAbove(i, relevance_score) == relevance_score > (7 * Unit) \div 10

\* Line 118: "i == 0 and relevance_score > 0.7" (i counts from 0 there, from
\* 1 here).
MostRelevant(i, relevance_score) == i = 1 /\ relevance_score > (7 * Unit) \div 10

\* The loop of lines 116-142 over scored_results[:10]: one embed field per
\* entry, in the order of the list.
EmbedFields(scored_results) ==
    [i \in 1..(IF Len(scored_results) < 10 THEN Len(scored_results) ELSE 10) |->
        [item |-> scored_results[i].item,
         marker |-> MostRelevant(i, scored_results[i].score)]]

Catalogs == {"all", "bgg", "steam", "xbox"}
Platforms == {"bgg", "steam", "xbox"}

\* The query of the model, as typed: with and without whitespace and capitals.
Queries == {<<"c", "a", "t">>, <<" ", "C", "a", "t", " ">>}

\* Names: the query itself, in capitals, with whitespace around it, with a
\* suffix, with a prefix, one letter off, and nothing in common.
Names == {<<"c", "a", "t">>, <<"C", "a", "t">>, <<" ", "c", "a", "t">>,
          <<"c", "a", "t", "s">>, <<"s", "c", "a", "t">>, <<"c", "o", "t">>,
          <<"o", "o", "s">>}

Ratings == {<<>>, <<0>>, <<8>>, <<10>>}

Years == {NoYear, IntYear(0), IntYear(1995), IntYear(2000), IntYear(2010),
          IntYear(2020), IntYear(2030),
          StrYear(<<"1", "9", "9", "5">>), StrYear(<<"2", "0", "1", "0">>),
          StrYear(<<"2", "0", "3", "0">>), StrYear(<<"c", "a", "t">>)}

\* Every candidate of the model, and the few of the ranked lists.
Candidates == [name : Names, platform : Platforms, rating : Ratings,
               year_published : Years]
RankedCandidates ==
    [name : {<<"c", "a", "t">>, <<"c", "a", "t", "s">>, <<"c", "o", "t">>},
     platform : {"bgg", "steam"}, rating : {<<>>}, year_published : {NoYear}]

IdleSearch == [pc |-> "idle", query |-> <<>>, catalog |-> "all", results |-> <<>>,
               scored_results |-> <<>>, fields |-> <<>>]

SearchIdle == search = IdleSearch

\* One candidate, to be scored.
ScoreInit ==
    search \in [pc : {"found"}, query : Queries, catalog : Catalogs,
                results : {<<c>> : c \in Candidates},
                scored_results : {<<>>}, fields : {<<>>}]

\* A result list, to be shown.
RankInit ==
    search \in [pc : {"found"}, query : {<<"c", "a", "t">>}, catalog : {"all", "bgg", "steam"},
                results : SeqsUpTo(RankedCandidates, MaxResults) \ {<<>>},
                scored_results : {<<>>}, fields : {<<>>}]

\* A direct call of _score_search_results.
ScoreCall ==
    /\ search.pc = "found"
    /\ search' = [search EXCEPT
                    !.pc = "scored",
                    !.scored_results = ScoreSearchResults(search.results, search.query,
                                                          search.catalog)]
    /\ UNCHANGED <<jarvVars, bggVars, pollVars, profVars, kdbVars, cmdVars>>

\* _show_multi_platform_search_results (lines 101-142): the results are scored
\* and one embed field is added per entry.
ShowResults ==
    /\ search.pc = "found"
    /\ LET scored_results == ScoreSearchResults(search.results, search.query,
                                                search.catalog)
       IN  search' = [search EXCEPT !.pc = "shown",
                                    !.scored_results = scored_results,
                                    !.fields = EmbedFields(scored_results)]
    /\ UNCHANGED <<jarvVars, bggVars, pollVars, profVars, kdbVars, cmdVars>>

(***************************************************************************)
(* Kallax: _safe_int and _safe_float of the BGG client (utils/bgg_api.py).  *)
(* Python values are records tagged with their type; a float is a sign, a  *)
(* numerator and a power of ten, or an infinity, or nan.                   *)
(***************************************************************************)
PyNone == [type |-> "none"]
PyDict == [type |-> "dict"]
PyStr(text) == [type |-> "str", str |-> text]
PyInteger(n) == [type |-> "int", int |-> n]
PyFinite(sign, num, den) == [type |-> "float", kind |-> "finite", sign |-> sign,
                             num |-> num, den |-> den]
PyInf(sign) == [type |-> "float", kind |-> "inf", sign |-> sign]
PyNan == [type |-> "float", kind |-> "nan"]

\* An exception on its way out of an expression.
Throws(exc) == [kind |-> "throws", value |-> exc]

RECURSIVE Pow10(_)
Pow10(k) == IF k = 0 THEN 1 ELSE 10 * Pow10(k - 1)

\* A decimal literal without exponent as float() reads it: digits with at
\* most one point and at least one digit.
IsDecimal(body) ==
    LET dots == {i \in DOMAIN body : body[i] = "."}
    IN  IF dots = {} THEN IsDigit(body)
        ELSE /\ Cardinality(dots) = 1
             /\ LET i    == CHOOSE j \in dots : TRUE
                    int  == SubSeq(body, 1, i - 1)
                    frac == SubSeq(body, i + 1, Len(body))
                IN  /\ int = <<>> \/ IsDigit(int)
                    /\ frac = <<>> \/ IsDigit(frac)
                    /\ int # <<>> \/ frac # <<>>

\* The value of a decimal literal: its digits over a power of ten.
DecimalValue(sign, body) ==
    LET dots   == {i \in DOMAIN body : body[i] = "."}
        digits == SelectSeq(body, LAMBDA c : c # ".")
        places == IF dots = {} THEN 0 ELSE Len(body) - (CHOOSE j \in dots : TRUE)
    IN  PyFinite(sign, IntOfDigits(digits), Pow10(places))

\* float(value) of Python: a str is stripped and read as an optional sign and
\* a decimal literal, "inf" or "nan"; an int converts; None and a dict are a
\* TypeError.
PyFloat(value) ==
    CASE value.type = "float" -> Ok(value)
      [] value.type = "int" ->
            Ok(PyFinite(IF value.int < 0 THEN -1 ELSE 1,
                        IF value.int < 0 THEN -value.int ELSE value.int, 1))
      [] value.type = "str" ->
            LET text == Strip(value.str)
                sign == IF text # <<>> /\ Head(text) = "-" THEN -1 ELSE 1
                body == IF text # <<>> /\ Head(text) \in {"-", "+"} THEN Tail(text) ELSE text
            IN  IF body = <<"i", "n", "f">> THEN Ok(PyInf(sign))
                ELSE IF body = <<"n", "a", "n">> THEN Ok(PyNan)
                ELSE IF IsDecimal(body) THEN Ok(DecimalValue(sign, body))
                ELSE Throws("ValueError")
      [] OTHER -> Throws("TypeError")

\* int(x) of a float: truncation toward zero; an infinity is an OverflowError
\* and nan a ValueError.
PyIntOfFloat(x) ==
    CASE x.kind = "finite" -> Ok(PyInteger(x.sign * (x.num \div x.den)))
      [] x.kind = "inf"    -> Throws("OverflowError")
      [] x.kind = "nan"    -> Throws("ValueError")

\* "except (ValueError, TypeError): return None" (lines 387-388, 397-398):
\* any other exception leaves the method.
ExceptValueOrType(thrown) ==
    IF thrown.value \in {"ValueError", "TypeError"} THEN Ok(PyNone) ELSE Raised

\* "value is None or value == ''" (lines 383, 393).
NoneOrEmpty(value) == value = PyNone \/ value = PyStr(<<>>)

\* _safe_int (lines 380-388): int(float(value)).
safe_int(value) ==
    IF NoneOrEmpty(value) THEN Ok(PyNone)
    ELSE LET f == PyFloat(value)
         IN  IF f.kind = "throws" THEN ExceptValueOrType(f)
             ELSE LET i == PyIntOfFloat(f.value)
                  IN  IF i.kind = "throws" THEN ExceptValueOrType(i) ELSE i

\* _safe_float (lines 390-398): float(value).
safe_float(value) ==
    IF NoneOrEmpty(value) THEN Ok(PyNone)
    ELSE LET f == PyFloat(value)
         IN  IF f.kind = "throws" THEN ExceptValueOrType(f) ELSE f

\* The texts of the model: padding, a sign and a body.
NumberBodies ==
    {<<>>, <<"0">>, <<"4">>, <<"4", ".", "0">>, <<"4", ".", "5">>, <<".">>,
     <<"i", "n", "f">>, <<"n", "a", "n">>, <<"a", "b", "c">>}
NumberTexts ==
    {pad \o sign \o body \o pad :
        pad \in {<<>>, <<" ">>}, sign \in {<<>>, <<"-">>, <<"+">>}, body \in NumberBodies}

\* The arguments of the model: None, a dict, strings, ints and floats.
ConvInputs ==
    {PyNone, PyDict} \cup {PyStr(text) : text \in NumberTexts}
        \cup {PyInteger(n) : n \in {-3, 0, 4}}
        \cup {PyFinite(1, 45, 10), PyFinite(-1, 45, 10), PyInf(1), PyNan}

ConvInit ==
    conv \in [fn : {"_safe_int", "_safe_float"}, input : ConvInputs, result : {Pending}]

\* One call of _safe_int or _safe_float.
SafeConvert ==
    /\ conv.fn \in {"_safe_int", "_safe_float"}
    /\ conv.result = Pending
    /\ conv' = [conv EXCEPT !.result =
                  IF conv.fn = "_safe_int" THEN safe_int(conv.input)
                  ELSE safe_float(conv.input)]
    /\ UNCHANGED <<set_profile, pager, jarvVars, bggVars, pollVars, profVars, kdbVars,
                   searchVars>>

(***************************************************************************)
(* Kallax: the repeated keys of a parsed BGG response.  xmltodict gives a  *)
(* mapping for a key that occurs once and a list for a key that occurs     *)
(* more often; the client methods wrap the mapping in a list.              *)
(***************************************************************************)
\* The value under a repeated key: the key is absent, holds one mapping
\* (mapping = <<m>>), or holds a list of mappings.
RawValues(S) ==
    {[shape |-> "absent", mapping |-> <<>>, list |-> <<>>]}
        \cup {[shape |-> "single", mapping |-> <<item>>, list |-> <<>>] : item \in S}
        \cup {[shape |-> "list", mapping |-> <<>>, list |-> q] : q \in SeqsUpTo(S, MaxItems)}

\* Iterating over the mapping itself: its keys are no mappings, and the loops
\* skip them.
FlattenListsOnly(raw) == IF raw.shape = "list" THEN raw.list ELSE <<>>

\* "if not isinstance(x, list): x = [x]" (lines 83-84, 121-122, 267-268,
\* 316-317, 328-329).
Flatten(raw) == IF raw.shape = "list" THEN raw.list ELSE <<raw.mapping[1]>>

\* The <item> elements of a search response: '@id', name '@value' and
\* yearpublished '@value', each absent (<<>>) or present.
SearchItems ==
    [id   : {<<>>, <<<<"1", "7", "4", "4", "3", "0">>>>, <<<<"0">>>>, <<<<"a", "b", "c">>>>},
     name : {<<>>, <<"Gloomhaven">>},
     year : {<<>>, <<<<"2", "0", "1", "7">>>>}]

\* int(text) of Python on the texts of the model: <<n>>, or <<>> for ValueError.
PyIntOfText(text) ==
    IF IsDigit(Strip(text)) THEN <<IntOfDigits(Strip(text))>> ELSE <<>>

\* The result record of search_games (lines 89-93): int() of '@id' with the
\* default 0, the name with the default 'Unknown', and the '@value' of
\* yearpublished as the response holds it, a str, or None.
SearchResult(item) ==
    [bgg_id         |-> IF item.id = <<>> THEN 0 ELSE PyIntOfText(item.id[1])[1],
     name           |-> IF item.name = <<>> THEN "Unknown" ELSE item.name[1],
     year_published |-> IF item.year = <<>> THEN NoYear ELSE StrYear(item.year[1])]

\* The item loop of search_games (lines 86-97) with the whole record: int()
\* of a non-numeric id raises out of the method, an id of 0 is dropped.
RECURSIVE SearchResults(_, _)
SearchResults(items, results) ==
    IF items = <<>> THEN Ok(results)
    ELSE LET item == Head(items)
         IN  IF item.id # <<>> /\ PyIntOfText(item.id[1]) = <<>> THEN Raised
             ELSE IF SearchResult(item).bgg_id # 0
                  THEN SearchResults(Tail(items), Append(results, SearchResult(item)))
                  ELSE SearchResults(Tail(items), results)

\* The <player> elements of a play: '@name' absent or present, '@win'.
PlayerItems == [name : {<<>>, <<"bob">>}, win : {"0", "1"}]

\* One entry of the players of a play (lines 332-338).
Player(item) ==
    [name |-> IF item.name = <<>> THEN "Unknown" ELSE item.name[1],
     win  |-> item.win = "1"]

\* A client method, or the player loop of get_user_plays, on the value of
\* its repeated key: "'item' not in items" returns [] (lines 78-79, 116-117,
\* 262-263), an absent 'play' or 'player' leaves the list empty (lines 314,
\* 326).
ParseRepeated(fn, raw) ==
    IF raw.shape = "absent" THEN Ok(<<>>)
    ELSE CASE fn = "search_games" -> SearchResults(Flatten(raw), <<>>)
           [] fn = "players" -> Ok([i \in DOMAIN Flatten(raw) |-> Player(Flatten(raw)[i])])
           [] OTHER -> ClientMethod(fn, <<Flatten(raw)>>, <<>>)

\* The inputs of the model: for each parser the values of its repeated key.
RepeatedInputs ==
    [fn : {"search_games"}, input : RawValues(SearchItems), result : {Pending}]
        \cup [fn : BggOps \ {"search_games"}, input : RawValues(Items), result : {Pending}]
        \cup [fn : {"players"}, input : RawValues(PlayerItems), result : {Pending}]

FlattenInit == conv \in RepeatedInputs

\* One parser applied to one response.
ParseCall ==
    /\ conv.fn \in BggOps \cup {"players"}
    /\ conv.result = Pending
    /\ conv' = [conv EXCEPT !.result = ParseRepeated(conv.fn, conv.input)]
    /\ UNCHANGED <<set_profile, pager, jarvVars, bggVars, pollVars, profVars, kdbVars,
                   searchVars>>

(***************************************************************************)
(* The specifications.                                                     *)
(***************************************************************************)
\* /hit commands of several users running concurrently.
InitHit == JarvInit /\ BggIdle /\ PollIdle /\ ProfIdle /\ KdbIdle /\ SearchIdle /\ CmdIdle
NextHit ==
    \/ \E u \in UserIds, name \in DisplayNames : HitGet(u, name)
    \/ \E u \in UserIds, ok \in BOOLEAN : HitAssign(u, ok)
SpecHit == InitHit /\ [][NextHit]_vars

\* /hit commands run one after another.
NextHitSeq == \E u \in UserIds, name \in DisplayNames, ok \in BOOLEAN : Hit(u, name, ok)
SpecHitSeq == InitHit /\ [][NextHitSeq]_vars

\* Direct calls of the Jarvfjallet database methods.
NextJarvDb ==
    \E game_id \in GameIds \cup {MissingGameId}, user_id \in UserIds,
       username \in DisplayNames, ok \in BOOLEAN :
        AssignCall(game_id, user_id, username, ok)
SpecJarvDb == InitHit /\ [][NextJarvDb]_vars

\* Direct calls of assign_game_to_user and update_review_completion on a
\* database that holds no review.
NextJarvReview ==
    \/ \E game_id \in GameIds \cup {MissingGameId}, user_id \in UserIds, ok \in BOOLEAN :
          AssignCall(game_id, user_id, "alice", ok)
    \/ \E game_id \in GameIds \cup {MissingGameId}, ok \in BOOLEAN :
          ReviewCall(game_id, "http://review", ok)
SpecJarvReview == InitHit /\ [][NextJarvReview]_vars

\* Calls of the BGG client methods.
InitBgg == JarvIdle /\ BggIdle /\ PollIdle /\ ProfIdle /\ KdbIdle /\ SearchIdle /\ CmdIdle
NextBgg ==
    \/ \E op \in BggOps, filter \in CollectionFilters : CallStart(op, filter)
    \/ \E resp \in Responses, body \in PlainBodies : Attempt(resp, body)
SpecBgg == InitBgg /\ [][NextBgg]_vars

\* The BGG client methods on every fetched response.
InitParse == JarvIdle /\ ParseInit /\ PollIdle /\ ProfIdle /\ KdbIdle /\ SearchIdle /\ CmdIdle
NextParse == ParseResponse
SpecParse == InitParse /\ [][NextParse]_vars

\* The vote loop of _parse_suggested_players on every list of tallies.
InitPoll == JarvIdle /\ BggIdle /\ PollInit /\ ProfIdle /\ KdbIdle /\ SearchIdle /\ CmdIdle
NextPoll == NextVote
SpecPoll == InitPoll /\ [][NextPoll]_vars

\* Calls of the Kallax profile methods on a database file of an earlier run.
InitProf == JarvIdle /\ BggIdle /\ PollIdle /\ ProfInit /\ KdbIdle /\ SearchIdle /\ CmdIdle
NextProf ==
    \/ \E d \in DiscordIds : GetUserProfile(d)
    \/ \E d \in DiscordIds, kwargs \in KwargSets : CreateUserProfile(d, kwargs)
    \/ \E d \in DiscordIds, kwargs \in KwargSets : UpdateUserProfile(d, kwargs)
SpecProf == InitProf /\ [][NextProf]_vars

\* /gg-profile-set commands run one after another, from the start of the bot
\* on a database file that may hold profiles.
NextProfSetSeq ==
    \/ \E p \in DOMAIN valid_platforms, d \in DiscordIds, valid \in BOOLEAN :
          NoOtherSetRunning(p) /\ SetUpdate(p, d, valid)
    \/ \E p \in DOMAIN valid_platforms, ok \in BOOLEAN : SetCreate(p, ok)
SpecProfSetSeq == InitProf /\ [][NextProfSetSeq]_vars

\* /gg-profile-set commands running concurrently, from the start of the bot on
\* a database file without profiles.
NextProfSet ==
    \/ \E p \in DOMAIN valid_platforms, d \in DiscordIds, valid \in BOOLEAN :
          SetUpdate(p, d, valid)
    \/ \E p \in DOMAIN valid_platforms, ok \in BOOLEAN : SetCreate(p, ok)
SpecProfSet == InitBgg /\ [][NextProfSet]_vars

\* Calls of _safe_int and _safe_float on the arguments of the model.
InitConv == JarvIdle /\ BggIdle /\ PollIdle /\ ProfIdle /\ KdbIdle /\ SearchIdle
            /\ SetIdle /\ PagerIdle /\ ConvInit
NextConv == SafeConvert
SpecConv == InitConv /\ [][NextConv]_vars

\* The parsers of the BGG client on responses whose repeated key is absent,
\* a mapping or a list.
InitFlatten == JarvIdle /\ BggIdle /\ PollIdle /\ ProfIdle /\ KdbIdle /\ SearchIdle
               /\ SetIdle /\ PagerIdle /\ FlattenInit
NextFlatten == ParseCall
SpecFlatten == InitFlatten /\ [][NextFlatten]_vars

\* One collection shown in pages, and the reactions on it.
NextPager ==
    \/ \E n \in 0..MaxCollection, order \in CollectionOrders : ShowCollection(n, order)
    \/ \E emoji \in {"left", "right"}, ok \in BOOLEAN : Reaction(emoji, ok)
    \/ Tick
    \/ Timeout
SpecPager == InitBgg /\ [][NextPager]_vars

\* Direct calls of the Jarvfjallet database methods on a database that
\* starts empty and is filled by imports.
InitJarvStats == JarvEmpty /\ BggIdle /\ PollIdle /\ ProfIdle /\ KdbIdle /\ SearchIdle /\ CmdIdle
NextJarvStats ==
    \/ \E file \in JsonFiles : ImportCall(file)
    \/ \E game_id \in GameIds : AssignCall(game_id, "111", "alice", TRUE)
    \/ \E game_id \in GameIds, ok \in BOOLEAN : ReviewCall(game_id, "http://review", ok)
    \/ StatsCall
    \/ RandomCall
SpecJarvStats == InitJarvStats /\ [][NextJarvStats]_vars

\* Starts of the bot on a database file that begins empty, with /hit commands
\* between the starts.
NextJarvBoot ==
    \/ \E json_file \in LegacyFiles : SetupHook(json_file)
    \/ \E u \in UserIds, ok \in BOOLEAN : last.op = "setup" /\ Hit(u, "alice", ok)
SpecJarvBoot == InitJarvStats /\ [][NextJarvBoot]_vars

\* Calls of the Kallax game cache methods from the start of the bot.
InitCache == JarvIdle /\ BggIdle /\ PollIdle /\ ProfIdle /\ KdbIdle /\ SearchIdle /\ CmdIdle
NextCache ==
    \/ \E d \in DiscordIds : GetUserProfile(d)
    \/ \E game_data \in GameData : CacheGame(game_data)
    \/ \E bgg_id \in CacheIds : GetCachedGame(bgg_id)
SpecCache == InitCache /\ [][NextCache]_vars

\* Tasks that call get_connection on a Database that is not initialized.
InitDb == JarvIdle /\ BggIdle /\ PollIdle /\ ProfIdle /\ CacheIdle /\ DbInit /\ SearchIdle /\ CmdIdle
NextDb ==
    \/ \E t \in Tasks : GetConnection(t)
    \/ \E t \in Tasks : AcquireLock(t)
    \/ \E t \in Tasks : Connect(t)
    \/ \E t \in Tasks : FinishInitialize(t)
SpecDb == InitDb /\ [][NextDb]_vars

\* _score_search_results on every candidate of the model.
InitScore == JarvIdle /\ BggIdle /\ PollIdle /\ ProfIdle /\ KdbIdle /\ ScoreInit /\ CmdIdle
NextScore == ScoreCall
SpecScore == InitScore /\ [][NextScore]_vars

\* The result list of /gg-search, scored and shown.
InitRank == JarvIdle /\ BggIdle /\ PollIdle /\ ProfIdle /\ KdbIdle /\ RankInit /\ CmdIdle
NextRank == ShowResults
SpecRank == InitRank /\ [][NextRank]_vars

Spec == SpecHit

(***************************************************************************)
(* The claims.                                                             *)
(***************************************************************************)
\* A step in which the /hit command of user u acted.
HitActed(u) == hit'[u] # hit[u]

\* C1 (SpecHit): two /hit commands of different users that run concurrently
\* never both report a successful assignment of the same game.
C1_NoDoubleAssignment ==
    \A u, v \in UserIds :
        (u # v /\ hit[u].outcome = "assigned" /\ hit[v].outcome = "assigned")
            => hit[u].game # hit[v].game

\* C2 (SpecJarvDb): every assign_game_to_user(game_id, user_id, username) call
\* that returns True has set the reviewer of exactly one game row, the row
\* whose id is game_id, to user_id, and has added exactly one user_assignments
\* row (user_id, game_id) with status 'assigned'.
C2_AssignSetsOneReviewer ==
    [][(last' # last /\ last'.op = "assign" /\ last'.ret) =>
          /\ last'.game_id \in DOMAIN games
          /\ games'[last'.game_id].reviewer = last'.user_id
          /\ \A g \in DOMAIN games \ {last'.game_id} : games'[g] = games[g]
          /\ Len(user_assignments') = Len(user_assignments) + 1
          /\ SubSeq(user_assignments', 1, Len(user_assignments)) = user_assignments
          /\ LET row == user_assignments'[Len(user_assignments')]
             IN  /\ row.user_id = last'.user_id
                 /\ row.game_id = last'.game_id
                 /\ row.status = "assigned"]_vars

\* C3 (SpecHitSeq): with /hit commands run one after another, every successful
\* /hit assigned a game that had no reviewer immediately before it, and the
\* games get_user_games_legacy returns for the user of the command and for any
\* other user are disjoint.
C3_SequentialHitsDisjoint ==
    [][\A u \in UserIds :
          (HitActed(u) /\ hit'[u].outcome = "assigned") =>
              /\ hit'[u].game[1] \in Unassigned(games)
              /\ \A v \in UserIds \ {u} :
                    get_user_games_legacy(games', u, hit'[u].name)
                        \cap get_user_games_legacy(games', v, hit'[v].name) = {}]_vars

\* C4 as stated (SpecHitSeq): when every game has a non-empty reviewer, /hit
\* does not call assign_game_to_user, leaves both tables unchanged, and the
\* requesting user has no assigned games afterwards.
C4_NoGamesUserHasNone ==
    [][\A u \in UserIds :
          (HitActed(u) /\ Unassigned(games) = {}) =>
              /\ hit'[u].assign_calls = 0
              /\ UNCHANGED <<games, user_assignments>>
              /\ get_user_games_legacy(games', u, hit'[u].name) = {}]_vars

\* C4 as amended (SpecHitSeq): when every game has a non-empty reviewer, /hit
\* reports that no game is available, does not call assign_game_to_user and
\* leaves both tables unchanged, so the requesting user has exactly the games
\* the user had before the command.
C4_NoGamesLeavesTables ==
    [][\A u \in UserIds :
          (HitActed(u) /\ Unassigned(games) = {}) =>
              /\ hit'[u].outcome = "no_games"
              /\ hit'[u].assign_calls = 0
              /\ UNCHANGED <<games, user_assignments>>
              /\ get_user_games_legacy(games', u, hit'[u].name)
                    = get_user_games_legacy(games, u, hit'[u].name)]_vars

\* A user who holds a game ran /hit when no game was left.
C4_Witness ==
    \E u \in UserIds :
        /\ hit[u].outcome = "no_games"
        /\ Unassigned(games) = {}
        /\ \E g \in DOMAIN games : games[g].reviewer = u

\* Every attempt of the request ended in a status other than 200 and 202 or
\* in a network failure.
AllAttemptsFailed ==
    /\ req.pc = "done"
    /\ \A i \in DOMAIN req.responses : req.responses[i] \in {"other", "exc"}

\* C5 (SpecBgg): when every attempt of a request ended in a status other than
\* 200 and 202 or in a network failure, the client method fails after the
\* retries instead of returning; it does not return the empty list that stands
\* for "nothing found".
C5_FailurePropagates ==
    (AllAttemptsFailed /\ call.result # Pending) =>
        /\ call.result.kind = "raised"
        /\ call.result # Ok(<<>>)

\* C6 as stated (SpecBgg): _make_request issues at most 3 requests, returns
\* the parsed body at the first response of status 200 without a further
\* request, and otherwise ends after the third attempt.
C6_ReturnsAtFirst200 ==
    /\ req.requests <= 3
    /\ \A i \in DOMAIN req.responses :
          req.responses[i] \in {"200", "200bad"} =>
              i = Len(req.responses) /\ req.pc = "done" /\ req.data # <<>>
    /\ (req.pc = "done" /\ req.data = <<>>) => req.requests = 3

\* C6 as amended (SpecBgg): _make_request issues at most 3 requests, returns
\* the parsed body at the first 200 response whose body parses, without a
\* further request, and otherwise ends after the third attempt; a 200 response
\* whose body does not parse is a failed attempt like any other.
C6_ReturnsAtFirstParsed200 ==
    /\ req.requests = Len(req.responses)
    /\ req.requests <= 3
    /\ req.pc = "running" => req.requests < 3
    /\ \A i \in DOMAIN req.responses :
          req.responses[i] = "200" =>
              i = Len(req.responses) /\ req.pc = "done" /\ req.data # <<>>
    /\ (req.pc = "done" /\ req.data # <<>>) => req.responses[Len(req.responses)] = "200"
    /\ (req.pc = "done" /\ req.data = <<>>) => req.requests = 3

\* _make_request returned a body on the attempt after a 200 response that did
\* not parse.
C6_Witness ==
    /\ req.pc = "done"
    /\ req.data # <<>>
    /\ \E i \in DOMAIN req.responses : req.responses[i] = "200bad"

\* The id texts that are numbers.
NumericIds == {"0", "7"}
BadId(item) == item.id = NoId \/ item.id \notin NumericIds
GoodId(item) == ~BadId(item)
PositiveId(item) == item.id \in NumericIds /\ item.id # "0"
PositiveEntry(e) == e.bgg_id # 0

\* C7 (SpecParse): in every client method an item whose id is missing or not
\* numeric is skipped and every well-formed item of the response is returned
\* (here: every item with a positive id, in order).
C7_BadItemsSkipped ==
    (parse.result # Pending /\ parse.data # <<>>) =>
        /\ parse.result.kind = "ok"
        /\ Len(SelectSeq(parse.result.value, PositiveEntry))
              = Len(SelectSeq(parse.data[1], PositiveId))
        /\ Len(parse.result.value) <= Len(SelectSeq(parse.data[1], GoodId))

\* The flags a call asks for: all four when collection_types is None.
Requested(filter) == IF filter = <<>> THEN CollectionFlags ELSE filter[1]

\* C8 (SpecParse): get_user_collection returns only entries for which at least
\* one requested flag is true.
C8_OnlyRequestedFlags ==
    (parse.op = "get_user_collection" /\ parse.result.kind = "ok") =>
        \A i \in DOMAIN parse.result.value :
            parse.result.value[i].status \cap Requested(parse.filter) # {}

\* The highest vote count among the first n tallies that are Best tallies.
RECURSIVE HighestBestSeen(_, _)
HighestBestSeen(votes, n) ==
    IF n = 0 THEN 0
    ELSE LET rest == HighestBestSeen(votes, n - 1)
             v    == votes[n]
         IN  IF v.value = "Best" /\ v.numvotes # <<>> /\ v.numvotes[1] > rest
             THEN v.numvotes[1] ELSE rest

\* C9 (SpecPoll): a label starts from 'Not Recommended'; it becomes 'Best' only
\* on a Best tally whose vote count strictly exceeds the highest Best vote
\* count seen so far; it becomes 'Recommended' on any Recommended tally unless
\* it is 'Best'; once 'Best' it stays 'Best'.
C9_Aggregation ==
    /\ poll.st.recommendation = "Not Recommended"
    /\ [][poll'.done = poll.done + 1 =>
            LET v   == poll.votes[poll'.done]
                old == poll.st.recommendation
                new == poll'.st.recommendation
            IN  /\ (new = "Best" /\ old # "Best") =>
                      /\ v.value = "Best"
                      /\ v.numvotes # <<>>
                      /\ v.numvotes[1] > HighestBestSeen(poll.votes, poll.done)
                /\ (v.value = "Recommended" /\ old # "Best") => new = "Recommended"
                /\ old = "Best" => new = "Best"
                /\ new # old => v.value \in {"Best", "Recommended"}]_vars

\* A label that is 'Best' has passed a later Recommended tally.
C9_Witness ==
    /\ poll.st.recommendation = "Best"
    /\ \E i, j \in 1..poll.done :
          /\ i < j
          /\ poll.votes[i].value = "Best"
          /\ poll.votes[j].value = "Recommended"

\* C10, on an existing profile (SpecProf): update_user_profile changes exactly
\* the fields named in the call (and updated_at): every named field holds the
\* value of the call afterwards, every other stored field of the profile and
\* every other profile are unchanged.
C10_UpdateChangesNamedFields ==
    [][lastUpdate' # lastUpdate =>
          LET d  == lastUpdate'.discord_id
              kw == lastUpdate'.kwargs
          IN  /\ \A e \in DiscordIds \ {d} : user_profiles'[e] = user_profiles[e]
              /\ user_profiles[d] = <<>> => user_profiles'[d] = <<>>
              /\ user_profiles[d] # <<>> =>
                    /\ user_profiles'[d] # <<>>
                    /\ \A c \in DOMAIN user_profiles[d][1] :
                          /\ c \in kw => user_profiles'[d][1][c] = KwargValue[c]
                          /\ (c \notin kw /\ c # "updated_at")
                                => user_profiles'[d][1][c] = user_profiles[d][1][c]]_vars

\* C11 (SpecCache): cache_game is an upsert keyed by bgg_id: after a
\* cache_game call with a named record, get_cached_game of that id returns the record of the call,
\* whatever was cached before (so caching a record twice stores what caching
\* it once stores), and the rows of the other ids are untouched.
C11_CacheIsUpsert ==
    [][(now' # now /\ lastCache'.op = "cache_game" /\ lastCache'.game_data.name # Null) =>
          LET game_data == lastCache'.game_data
              got == get_cached_game(game_cache', connection', game_data.bgg_id)
          IN  /\ got.kind = "ok"
              /\ got.value # <<>>
              /\ got.value[1].bgg_id = game_data.bgg_id
              /\ got.value[1].name = game_data.name
              /\ got.value[1].rating = game_data.rating
              /\ \A i \in CacheIds \ {game_data.bgg_id} : game_cache'[i] = game_cache[i]]_vars

AssignReturnedTrue == now' # now /\ last'.op = "assign" /\ last'.ret
ReviewReturnedTrue == now' # now /\ last'.op = "review" /\ last'.ret

\* C13 (SpecJarvStats): in every state reachable by import_from_json,
\* assign_game_to_user and update_review_completion calls, get_game_stats
\* returns total_games = assigned_games + unassigned_games, where
\* assigned_games is the number of games with a non-empty reviewer; assigning
\* a game that had no reviewer raises assigned_games by one and lowers
\* unassigned_games by one.
C13_StatsAddUp ==
    /\ [](LET stats == get_game_stats(games)
          IN  /\ stats.total_games = stats.assigned_games + stats.unassigned_games
              /\ stats.total_games = Cardinality(DOMAIN games)
              /\ stats.assigned_games = Cardinality(DOMAIN games \ Unassigned(games))
              /\ last.op = "stats" => last.ret = stats)
    /\ [][(AssignReturnedTrue /\ last'.game_id \in Unassigned(games)) =>
            /\ get_game_stats(games').assigned_games
                  = get_game_stats(games).assigned_games + 1
            /\ get_game_stats(games').unassigned_games
                  = get_game_stats(games).unassigned_games - 1
            /\ get_game_stats(games').total_games = get_game_stats(games).total_games]_vars

\* get_game_stats was called with an imported game assigned by a call and
\* another game still unassigned.
C13_Witness ==
    /\ last.op = "stats"
    /\ last.ret.assigned_games >= 1
    /\ last.ret.unassigned_games >= 1
    /\ \E g \in DOMAIN games : games[g].reviewer = "111"

\* A game row without a review: its review_date is NULL or ''.
NoReviewYet(row) == row.review_date = NoDate \/ row.review_date = <<EmptyText>>

\* C14 (SpecJarvStats): a successful update_review_completion(game_id,
\* review_url) on an assigned game that has no review yet sets the review_url
\* and the review_date of that game, raises completed_reviews by exactly one,
\* and leaves total_games, assigned_games and the reviewer of the game
\* unchanged.
C14_ReviewCompletes ==
    [][(/\ ReviewReturnedTrue
        /\ last'.game_id \in DOMAIN games
        /\ last'.game_id \notin Unassigned(games)
        /\ NoReviewYet(games[last'.game_id])) =>
          LET g == last'.game_id
          IN  /\ games'[g].review_url = last'.review_url
              /\ ~NoReviewYet(games'[g])
              /\ games'[g].reviewer = games[g].reviewer
              /\ get_game_stats(games').completed_reviews
                    = get_game_stats(games).completed_reviews + 1
              /\ get_game_stats(games').total_games = get_game_stats(games).total_games
              /\ get_game_stats(games').assigned_games
                    = get_game_stats(games).assigned_games]_vars

\* The review of a game that a call had assigned was completed.
C14_Witness ==
    /\ last.op = "review"
    /\ last.ret
    /\ last.game_id \in DOMAIN games
    /\ games[last.game_id].reviewer = "111"
    /\ games[last.game_id].review_url = last.review_url
    /\ get_game_stats(games).completed_reviews >= 1

\* C15 (SpecJarvStats): get_random_unassigned_game returns a game whose
\* reviewer is NULL or empty whenever such a game exists, and returns None
\* exactly when no such game exists, that is exactly when get_game_stats
\* reports unassigned_games = 0.
C15_RandomUnassigned ==
    last.op = "random" =>
        /\ last.ret # <<>> =>
              /\ last.ret[1] \in DOMAIN games
              /\ games[last.ret[1]].reviewer \in {Null, ""}
        /\ (\E g \in DOMAIN games : games[g].reviewer \in {Null, ""}) => last.ret # <<>>
        /\ last.ret = <<>> <=> get_game_stats(games).unassigned_games = 0

\* The call returned a game while another game had a reviewer.
C15_Witness ==
    /\ last.op = "random"
    /\ last.ret # <<>>
    /\ \E g \in DOMAIN games : games[g].reviewer \notin {Null, ""}

\* The entries of a scored list, by position.
Entries == DOMAIN search.scored_results
ScoreAt(i) == search.scored_results[i].score
ItemAt(i) == search.scored_results[i].item

\* C16 (SpecRank): _score_search_results returns every candidate exactly once,
\* ordered by descending relevance score, and two candidates with identical
\* computed scores keep their original relative input order.
C16_StableDescending ==
    search.pc = "shown" =>
        /\ Len(search.scored_results) = Len(search.results)
        /\ {ItemAt(i) : i \in Entries} = DOMAIN search.results
        /\ \A i \in Entries :
              ScoreAt(i) = Score(search.results[ItemAt(i)], search.query, search.catalog)
        /\ \A i, j \in Entries : i < j => ScoreAt(i) >= ScoreAt(j)
        /\ \A i, j \in Entries : (i < j /\ ScoreAt(i) = ScoreAt(j)) => ItemAt(i) < ItemAt(j)

\* A scored list holds two candidates of one score after a candidate that
\* came later in the input, or just two candidates of one score.
C16_Witness ==
    /\ search.pc = "shown"
    /\ \E i, j \in Entries : i < j /\ ScoreAt(i) = ScoreAt(j)

\* The one candidate and the one score of a direct call.
Scored == search.results[1]
ScoredScore == search.scored_results[1].score

\* C17 (SpecScore): the base score compares the candidate name and the query
\* case-insensitively with both sides trimmed (1.0 equal, 0.9 starts with, 0.8
\* contains, else similarity ratio times 0.7), so that whitespace around the
\* query or around the name does not change the tier.
C17_BothSidesTrimmed ==
    search.pc = "scored" =>
        ScoredScore = TrimmedBaseScore(Scored, search.query)
                        + PlatformBonus(Scored, search.catalog)
                        + RatingBonus(Scored, search.catalog)
                        + YearBonus(Scored)

\* C18 (SpecScore): every candidate whose platform is bgg and which has a
\* rating receives the rating bonus min(rating/10 * 0.1, 0.1), under the
\* catalog filter 'bgg' and under 'all' alike, and no candidate of another
\* platform receives it.
C18_RatingBonusForBgg ==
    (search.pc = "scored" /\ (search.catalog \in {"bgg", "all"} \/ Scored.platform # "bgg")) =>
        ScoredScore = BaseScore(Scored, search.query)
                        + PlatformBonus(Scored, search.catalog)
                        + RatingBonusAnyCatalog(Scored, search.catalog)
                        + YearBonus(Scored)

\* The number a year_published stands for: an int, or a string of digits.
NumericYear(year) ==
    IF year.type = "int" THEN <<year.int>>
    ELSE IF year.type = "str" /\ IsDigit(year.str) THEN <<IntOfDigits(year.str)>>
    ELSE <<>>
NumericYears == {y \in Years : NumericYear(y) # <<>>}
YearBonusOf(year) ==
    YearBonus([name |-> <<>>, platform |-> "bgg", rating |-> <<>>, year_published |-> year])

\* C19 (SpecScore): the year bonus is min((year-2000)/200, 0.1) when
\* year_published is an integer or a numeric string greater than 2000, and 0
\* when it is absent or not greater than 2000; it never exceeds 0.1, reaches
\* the cap from year 2020 on, and is non-decreasing in the year.
C19_YearBonus ==
    /\ search.pc = "scored" =>
          LET year  == NumericYear(Scored.year_published)
              bonus == ScoredScore - BaseScore(Scored, search.query)
                          - PlatformBonus(Scored, search.catalog)
                          - RatingBonus(Scored, search.catalog)
          IN  /\ (year # <<>> /\ year[1] > 2000 /\ year[1] < 2020) =>
                    200 * bonus = (year[1] - 2000) * Unit
              /\ (year # <<>> /\ year[1] >= 2020) => 10 * bonus = Unit
              /\ (year = <<>> \/ year[1] <= 2000) => bonus = 0
              /\ 10 * bonus <= Unit
    /\ \A y, z \in NumericYears :
          NumericYear(y)[1] <= NumericYear(z)[1] => YearBonusOf(y) <= YearBonusOf(z)

\* A candidate whose year is a string of digits past 2020 was scored.
C19_Witness ==
    /\ search.pc = "scored"
    /\ Scored.year_published = StrYear(<<"2", "0", "3", "0">>)
    /\ Scored.platform = "steam"
    /\ search.catalog = "all"

\* C20 (SpecRank): in the search result list the "most relevant" marker is
\* shown on at most one entry, only on the top-ranked entry, and only when the
\* score of that entry exceeds 0.7; the entries are shown in the ranked order.
C20_MarkerOnTopOnly ==
    search.pc = "shown" =>
        /\ Cardinality({i \in DOMAIN search.fields : search.fields[i].marker}) <= 1
        /\ \A i \in DOMAIN search.fields :
              search.fields[i].marker => (i = 1 /\ 10 * ScoreAt(1) > 7 * Unit)
        /\ Len(search.fields) = Len(search.scored_results)
        /\ \A i \in DOMAIN search.fields : search.fields[i].item = ItemAt(i)

\* The top entry carries the marker and a later entry, also above 0.7, does
\* not.
C20_Witness ==
    /\ search.pc = "shown"
    /\ search.fields[1].marker
    /\ \E i \in DOMAIN search.fields :
          i > 1 /\ 10 * ScoreAt(i) > 7 * Unit /\ ~search.fields[i].marker

\* C28 (SpecBgg): for every sequence of responses the backoff waits of one
\* _make_request call add up to at most 2 s + 4 s, and the iteration that ends
\* the call (a 200, or the last of the three attempts) does not wait.
C28_BackoffAtMostSix ==
    /\ [](req.slept <= initial_retry_delay + 2 * initial_retry_delay)
    /\ [][(req.pc = "running" /\ req'.pc = "done") => req'.slept = req.slept]_vars

\* C26 (SpecHitSeq): assign_game_to_user is all-or-nothing. When /hit reports
\* "Assignment Failed" (the call returned False), no row of games and no row
\* of user_assignments has changed, and the game the command picked is still
\* unassigned.
C26_FailedAssignChangesNothing ==
    [][\A u \in UserIds :
          (HitActed(u) /\ hit'[u].outcome = "failed") =>
              /\ games' = games
              /\ user_assignments' = user_assignments
              /\ hit'[u].game[1] \in Unassigned(games')]_vars

\* A /hit failed after an earlier /hit had assigned another game, and the
\* game of the failed command is still unassigned.
C26_Witness ==
    \E u \in UserIds :
        /\ hit[u].outcome = "failed"
        /\ hit[u].game[1] \in Unassigned(games)
        /\ user_assignments # <<>>

\* The game of an assignment row has a review date.
GameReviewed(row) ==
    /\ row.game_id \in DOMAIN games
    /\ ~NoReviewYet(games[row.game_id])

\* C27 (SpecJarvReview): after any sequence of assign_game_to_user and
\* update_review_completion calls on a database that started without reviews,
\* get_game_stats never reports more completed reviews than assigned games,
\* and a user_assignments row is 'completed' only if its game has a
\* review_date.
C27_ReviewOnlyForAssigned ==
    /\ get_game_stats(games).completed_reviews <= get_game_stats(games).assigned_games
    /\ \A i \in DOMAIN user_assignments :
          user_assignments[i].status = "completed" => GameReviewed(user_assignments[i])

\* This step is a start of the bot.
Restarted == last'.op = "setup" /\ hit' = [u \in UserIds |-> IdleHit]

\* C29 (SpecJarvBoot): the legacy import runs only while the games table is
\* empty.  A start of the bot on a database that already holds games leaves
\* every row of games as it was: reviewer, assign_date, review_url and
\* review_date of every game are unchanged.
C29_ImportOnlyWhenEmpty ==
    [][(Restarted /\ DOMAIN games # {}) =>
          /\ ~last'.imported
          /\ DOMAIN games' = DOMAIN games
          /\ \A g \in DOMAIN games : games'[g] = games[g]]_vars

\* The bot was started again, without an import, on a database in which /hit
\* had assigned a game.
C29_Witness ==
    /\ last.op = "setup"
    /\ ~last.imported
    /\ \E g \in DOMAIN games : games[g].reviewer \in UserIds
    /\ user_assignments # <<>>

\* The /gg-profile-set command for platform p reported success in this step.
SetSucceeded(p) ==
    /\ set_profile'[p] # set_profile[p]
    /\ set_profile'[p].pc = "done"
    /\ set_profile'[p].outcome \in {"set", "created"}

\* The stored value of a column of a user, NULL when the user has no row.
StoredValue(table, discord_id, column) ==
    IF table[discord_id] = <<>> THEN Null ELSE table[discord_id][1][column]

\* C24 (SpecProfSetSeq): in any sequence of /gg-profile-set commands of a
\* user, the first database operation after a start of the bot included, a
\* command that reports success stores its value in the column of its
\* platform and leaves the columns of the other platforms as they were.
C24_SetKeepsOtherPlatforms ==
    [][\A p \in DOMAIN valid_platforms :
          SetSucceeded(p) =>
              LET d == set_profile'[p].discord_id
              IN  /\ StoredValue(user_profiles', d, valid_platforms[p])
                        = KwargValue[valid_platforms[p]]
                  /\ \A q \in DOMAIN valid_platforms \ {p} :
                        StoredValue(user_profiles', d, valid_platforms[q])
                            = StoredValue(user_profiles, d, valid_platforms[q])]_vars

\* Both commands finished with a report of success for the same user.
BothSucceeded(p, q) ==
    /\ set_profile[p].pc = "done" /\ set_profile[p].outcome \in {"set", "created"}
    /\ set_profile[q].pc = "done" /\ set_profile[q].outcome \in {"set", "created"}
    /\ set_profile[p].discord_id = set_profile[q].discord_id

\* C25 (SpecProfSet): when two /gg-profile-set commands for different
\* platforms of one user without a profile run concurrently and both report
\* success, the stored profile holds the values of both once both have
\* finished.
C25_ConcurrentSetsBothStored ==
    \A p, q \in DOMAIN valid_platforms :
        (p # q /\ BothSucceeded(p, q)) =>
            /\ StoredValue(user_profiles, set_profile[p].discord_id, valid_platforms[p])
                  = KwargValue[valid_platforms[p]]
            /\ StoredValue(user_profiles, set_profile[q].discord_id, valid_platforms[q])
                  = KwargValue[valid_platforms[q]]

\* C23 (SpecConv): _safe_int and _safe_float never raise; they return None
\* for None and for the empty string, the number for a numeric string ("4.0"
\* gives 4), None for text that is no number, and _safe_int gives None for
\* "inf" and "nan", which have no integer value.
C23_SafeConversionsNeverRaise ==
    conv.fn \in {"_safe_int", "_safe_float"} /\ conv.result # Pending =>
        /\ conv.result.kind = "ok"
        /\ NoneOrEmpty(conv.input) => conv.result = Ok(PyNone)
        /\ conv.input = PyStr(<<"4", ".", "0">>) =>
              conv.result = IF conv.fn = "_safe_int" THEN Ok(PyInteger(4))
                            ELSE Ok(PyFinite(1, 40, 10))
        /\ conv.input = PyStr(<<"a", "b", "c">>) => conv.result = Ok(PyNone)
        /\ (conv.fn = "_safe_int"
               /\ conv.input \in {PyStr(<<"i", "n", "f">>), PyStr(<<"n", "a", "n">>)}) =>
              conv.result = Ok(PyNone)

\* The search item of the end-to-end scenario.
Gloomhaven ==
    [id |-> <<<<"1", "7", "4", "4", "3", "0">>>>, name |-> <<"Gloomhaven">>,
     year |-> <<<<"2", "0", "1", "7">>>>]

\* C21 (SpecFlatten): for a search response with the one item @id "174430",
\* name "Gloomhaven", yearpublished "2017", search_games returns exactly one
\* record, with the integer 174430 as id, the name "Gloomhaven" and the
\* integer 2017, not the string "2017", as year_published.
C21_SearchRecordHasIntegers ==
    (/\ conv.fn = "search_games"
     /\ conv.result # Pending
     /\ conv.input.shape # "absent"
     /\ Flatten(conv.input) = <<Gloomhaven>>) =>
        conv.result = Ok(<<[bgg_id |-> 174430, name |-> "Gloomhaven",
                            year_published |-> IntYear(2017)]>>)

\* C22 (SpecFlatten): for search items, thing items, collection items, plays
\* and the players of a play, a repeated key that holds one mapping gives
\* the same result as the key holding the list of that one mapping, and an
\* absent key gives the empty list.
C22_FlatteningShapeIndependent ==
    (conv.fn \in BggOps \cup {"players"} /\ conv.result # Pending) =>
        /\ conv.input.shape = "absent" => conv.result = Ok(<<>>)
        /\ conv.input.shape = "single" =>
              conv.result = ParseRepeated(conv.fn, [shape |-> "list", mapping |-> <<>>,
                                                   list |-> <<conv.input.mapping[1]>>])

\* A play with a single <player> element was parsed into one player.
C22_Witness ==
    /\ conv.fn = "players"
    /\ conv.input.shape = "single"
    /\ conv.result = Ok(<<[name |-> "bob", win |-> TRUE]>>)

\* The places (page, line) at which a game is listed.
PlacesOf(bgg_id) ==
    {pl \in {<<k, i>> : k \in DOMAIN pager.pages, i \in 1..items_per_page} :
        pl[2] \in DOMAIN pager.pages[pl[1]] /\ pager.pages[pl[1]][pl[2]].bgg_id = bgg_id}

\* The pages one after another.
RECURSIVE Concat(_)
Concat(pages) ==
    IF pages = <<>> THEN <<>>
    ELSE Concat(SubSeq(pages, 1, Len(pages) - 1)) \o pages[Len(pages)]

\* A collection is shown: sorted by name, cut into consecutive pages of 1 to
\* 15 games, each game on one page, the page index on a page.
PagerShown ==
    /\ pager.current_page \in 0..(Len(pager.pages) - 1)
    /\ \A i, j \in DOMAIN pager.collection :
          i < j => pager.collection[i].name <= pager.collection[j].name
    /\ \A k \in DOMAIN pager.pages :
          Len(pager.pages[k]) \in 1..items_per_page
    /\ Concat(pager.pages) = pager.collection
    /\ \A g \in 1..Len(pager.collection) : Cardinality(PlacesOf(g)) = 1
    /\ pager.waited <= wait_timeout

\* This step is the handling of a reaction.
Reacted == pager.pc = "waiting" /\ pager'.waited = 0 /\ pager'.reaction # "none"
                /\ pager'.pc \in {"waiting", "failed"}

\* A reaction at either end leaves the page, and the wait that reached 60 s
\* ends the loop.
EndsRespected ==
    /\ (Reacted /\ pager'.reaction = "left" /\ pager.current_page = 0) =>
          pager'.current_page = 0
    /\ (Reacted /\ pager'.reaction = "right"
           /\ pager.current_page = Len(pager.pages) - 1) =>
          pager'.current_page = pager.current_page
    /\ (pager.pc = "waiting" /\ pager.waited = wait_timeout) => pager'.pc = "closed"

\* C30 (SpecPager): for every sequence of left and right reactions the page
\* index stays in 0 .. number of pages - 1, a left reaction on the first page
\* and a right reaction on the last page change nothing, the pages cut the
\* name-sorted collection into consecutive chunks of at most 15 games with
\* every game on exactly one page, and when 60 s have passed without a
\* reaction the loop ends.
C30_PagerStaysOnPages ==
    /\ [](pager.pc \in {"waiting", "shown", "closed", "failed"} => PagerShown)
    /\ [][EndsRespected]_vars

\* A collection of three pages, the last of one game, was turned to its last
\* page and the loop ended after 60 s without a reaction.
C30_Witness ==
    /\ pager.pc = "closed"
    /\ Len(pager.pages) = 3
    /\ pager.current_page = 2
    /\ pager.waited = wait_timeout

====
